---- MODULE Spec2Model ----
(***************************************************************************)
(* sqyyy-bot: the circuit language front end (src/src/parser.rs),          *)
(* tokenize(statement) then parse(&tokens), run on one statement, and the  *)
(* emulate command's modal handler (src/src/commands/emulate.rs) that runs *)
(* it on every line of a submission.                                       *)
(*                                                                         *)
(* Text is a sequence of one-character strings; identifier names and       *)
(* error texts are strings built with \o, as String::push builds them.     *)
(***************************************************************************)
EXTENDS Integers, Sequences, FiniteSets, TLC

VARIABLES
    code,             \* tokenize's argument `code`, the statement's characters
    src,              \* Tokenizer.src: the characters not yet eaten
    buffer,           \* tokenize's `buffer`: the identifier being accumulated
    tokens,           \* Tokenizer.tokens, then the slice handed to parse
    open,             \* TRUE while the slice is an input still being drawn
    pos,              \* parse: how many tokens the iterator has yielded
    stack,            \* parse: the stack of groups
    inverted,         \* parse: the pending inversion
    expect_next,      \* parse: an operand is expected
    max_input,        \* parse: the running input count
    result,           \* what tokenize / parse returned
    pc,               \* "tokenize", "lex_error" (tokenize returned Err),
                      \* "parse", "finish" (after the loop), "done"
    overflow_checks,  \* the build profile: are arithmetic overflows checked
    input_value,      \* handle_modal: input.value, the text submitted
    statement_i,      \* handle_modal: `i`, the index of the statement at hand
    response,         \* handle_modal: the output accumulated so far
    reply,            \* handle_modal: the Response it returned
    emulators,        \* the arguments of every Emulator::new so far
    outcomes,         \* what every finished tokenize-and-parse call returned
    modals,           \* Handler.modals: the counter and the map behind the Mutex
    modals_lock,      \* the task holding the Mutex of Handler.modals, or NoTask
    tasks,            \* the interaction handlers running: position and locals
    issued,           \* the modal responses sent: their custom_id and Modal
    handled,          \* the lexicon operations modal submissions set off
    lexicons,         \* Handler.lexicons: the words of each Lexicon
    lexicon_locks,    \* the task holding each Lexicon's Mutex, or NoTask
    disk,             \* the lexicon files in the repository's working tree
    staged,           \* git: the files staged and not yet committed
    commits,          \* git: the commits made, each the set of its files
    replies           \* the Responses the lexicon operations returned

vars == <<code, src, buffer, tokens, open, pos, stack, inverted, expect_next,
          max_input, result, pc, overflow_checks, input_value, statement_i,
          response, reply, emulators, outcomes, modals, modals_lock, tasks,
          issued, handled, lexicons, lexicon_locks, disk, staged, commits,
          replies>>

handlerVars ==
    <<input_value, statement_i, response, reply, emulators, outcomes>>

registryVars == <<modals, modals_lock, issued, handled>>
lexiconVars == <<lexicons, lexicon_locks, disk, staged, commits, replies>>
botVars == <<tasks, registryVars, lexiconVars>>
frontVars ==
    <<code, src, buffer, tokens, open, pos, stack, inverted, expect_next,
      max_input, result, pc, overflow_checks, handlerVars>>

tokVars == <<src, buffer>>
parseVars == <<pos, stack, inverted, expect_next, max_input>>

----------------------------------------------------------------------------
(* Bounds of the model *)

\* usize is modelled UsizeBits wide
UsizeBits == 5
\* the longest slice parse is given when its tokens are drawn freely
MaxTokens == 8
\* the longest statement drawn freely from CodeChars
MaxCodeLen == 3

UsizeMax == 2 ^ UsizeBits - 1

----------------------------------------------------------------------------
(* Values *)

\* enum Token
LeftParen == [type |-> "LeftParen"]
RightParen == [type |-> "RightParen"]
Not == [type |-> "Not"]
Comma == [type |-> "Comma"]
Input(index) == [type |-> "Input", index |-> index]
Identifier(value) == [type |-> "Identifier", value |-> value]

\* enum Error
InvalidNumber(text) == [type |-> "InvalidNumber", text |-> text]
UnexpectedToken(token) == [type |-> "UnexpectedToken", token |-> token]
UnexpectedRightParen == [type |-> "UnexpectedRightParen"]
UnknownFunction(name) == [type |-> "UnknownFunction", name |-> name]
UnexpectedComma == [type |-> "UnexpectedComma"]
UnexpectedTokensAfterExpr == [type |-> "UnexpectedTokensAfterExpr"]
InvalidParentheses == [type |-> "InvalidParentheses"]
EmptyExpression == [type |-> "EmptyExpression"]
UnexpectedEndOfSource == [type |-> "UnexpectedEndOfSource"]

\* what a call returned: still running, Ok(value), Err(error), or a panic
Running == [kind |-> "Running"]
Ok(value) == [kind |-> "Ok", value |-> value]
Err(error) == [kind |-> "Err", error |-> error]
Panic(message) == [kind |-> "Panic", message |-> message]

\* the emulator crate's constructors of Component
input(index) == [gate |-> "Input", index |-> index]
not(component) == [gate |-> "Not", child |-> component]
and(components) == [gate |-> "And", children |-> components]
or(components) == [gate |-> "Or", children |-> components]

\* enum GroupType, paired with the group's operand list
Root == [type |-> "Root", operands |-> <<>>]

\* Call with the pending inversion not captured
Call_InversionDropped(call_name, inv) ==
    [type |-> "Call", call_name |-> call_name, inverted |-> FALSE,
     operands |-> <<>>]

\* GroupType::Call { call_name, inverted } with an empty operand list
Call(call_name, inv) ==
    [type |-> "Call", call_name |-> call_name, inverted |-> inv, operands |-> <<>>]

----------------------------------------------------------------------------
(* tokenize *)

AsciiDigits == <<"0", "1", "2", "3", "4", "5", "6", "7", "8", "9">>

\* char::is_ascii_digit
IsAsciiDigit(c) == \E i \in 1..Len(AsciiDigits) : AsciiDigits[i] = c

\* the value of an ASCII digit
DigitValue(c) == (CHOOSE i \in 1..Len(AsciiDigits) : AsciiDigits[i] = c) - 1

\* char::is_whitespace, on the characters a statement can hold
IsWhitespace(c) == c \in {" ", "\t", "\r"}

\* the characters parse_number's loop eats: the longest run of ASCII digits
RECURSIVE DigitRun(_)
DigitRun(chars) ==
    IF chars # <<>> /\ IsAsciiDigit(Head(chars))
    THEN <<Head(chars)>> \o DigitRun(Tail(chars))
    ELSE <<>>

\* parse_number's `buffer` after its pushes
RECURSIVE PushAll(_, _)
PushAll(string, chars) ==
    IF chars = <<>> THEN string ELSE PushAll(string \o Head(chars), Tail(chars))

\* CheckedDigits with the accumulator not multiplied by ten
RECURSIVE CheckedDigits_NoShift(_, _)
CheckedDigits_NoShift(digits, acc) ==
    IF digits = <<>> THEN acc
    ELSE LET v == acc + DigitValue(Head(digits))
         IN  IF v > UsizeMax THEN -1 ELSE CheckedDigits_NoShift(Tail(digits), v)

\* usize::from_str on a run of digits, digit by digit with checked
\* arithmetic: -1 stands for Err (PosOverflow)
RECURSIVE CheckedDigits(_, _)
CheckedDigits(digits, acc) ==
    IF digits = <<>> THEN acc
    ELSE LET v == acc * 10 + DigitValue(Head(digits))
         IN  IF v > UsizeMax THEN -1 ELSE CheckedDigits(Tail(digits), v)

\* FromStr with the empty string read as zero
FromStr_EmptyIsZero(digits) == CheckedDigits(digits, 0)

\* buffer.parse(): Err on the empty string (Empty) and on overflow
FromStr(digits) == IF digits = <<>> THEN -1 ELSE CheckedDigits(digits, 0)

\* parse_number: the digits eaten and Ok(num) or Err(InvalidNumber)
parse_number(chars) ==
    LET digits == DigitRun(chars)
        num == FromStr(digits)
    IN  [eaten |-> Len(digits),
         ret |-> IF num = -1 THEN Err(InvalidNumber(PushAll("", digits)))
                 ELSE Ok(num)]

\* if !buffer.is_empty() { ctx.tokens.push(Token::Identifier { value: buffer }) }
Flush(toks, buf) == IF buf # "" THEN Append(toks, Identifier(buf)) ELSE toks

\* Tokenizer::has_next
has_next == src # <<>>

\* Tokenizer::peek
peek == Head(src)

\* what the arms for '(' ')' '!' ',' do: flush, eat, push the token
PushPunctuation(token) ==
    /\ tokens' = Append(Flush(tokens, buffer), token)
    /\ buffer' = ""
    /\ src' = Tail(src)
    /\ UNCHANGED <<botVars, handlerVars, code, open, parseVars, result, pc, overflow_checks>>

\* the arm for '('
TokLeftParen ==
    /\ pc = "tokenize"
    /\ has_next
    /\ peek = "("
    /\ PushPunctuation(LeftParen)

\* the arm for ')'
TokRightParen ==
    /\ pc = "tokenize"
    /\ has_next
    /\ peek = ")"
    /\ PushPunctuation(RightParen)

\* the arm for '!'
TokNot ==
    /\ pc = "tokenize"
    /\ has_next
    /\ peek = "!"
    /\ PushPunctuation(Not)

\* the arm for ','
TokComma ==
    /\ pc = "tokenize"
    /\ has_next
    /\ peek = ","
    /\ PushPunctuation(Comma)

\* the arm for '.': flush, eat, parse_number, push Input or return its error
TokDot ==
    /\ pc = "tokenize"
    /\ has_next
    /\ peek = "."
    /\ LET number == parse_number(Tail(src))
       IN  IF number.ret.kind = "Ok"
           THEN /\ tokens' = Append(Flush(tokens, buffer), Input(number.ret.value))
                /\ src' = SubSeq(src, number.eaten + 2, Len(src))
                /\ buffer' = ""
                /\ UNCHANGED <<result, pc>>
           ELSE /\ result' = number.ret
                /\ pc' = "lex_error"
                /\ tokens' = <<>>
                /\ src' = <<>>
                /\ buffer' = ""
    /\ UNCHANGED <<botVars, handlerVars, code, open, parseVars, overflow_checks>>

\* TokWhitespace with the buffer kept across the whitespace
TokWhitespace_NoFlush ==
    /\ pc = "tokenize"
    /\ has_next
    /\ IsWhitespace(peek)
    /\ src' = Tail(src)
    /\ UNCHANGED <<botVars, handlerVars, code, tokens, buffer, open, parseVars, result, pc, overflow_checks>>

\* the arm for whitespace: flush and eat
TokWhitespace ==
    /\ pc = "tokenize"
    /\ has_next
    /\ IsWhitespace(peek)
    /\ tokens' = Flush(tokens, buffer)
    /\ buffer' = ""
    /\ src' = Tail(src)
    /\ UNCHANGED <<botVars, handlerVars, code, open, parseVars, result, pc, overflow_checks>>

\* the arm for any other character: eat it and push it to the buffer
TokOther ==
    /\ pc = "tokenize"
    /\ has_next
    /\ peek \notin {"(", ")", "!", ",", "."}
    /\ ~IsWhitespace(peek)
    /\ buffer' = buffer \o peek
    /\ src' = Tail(src)
    /\ UNCHANGED <<botVars, handlerVars, code, tokens, open, parseVars, result, pc, overflow_checks>>

\* the end of the loop: flush, return Ok(ctx.tokens); the caller hands the
\* tokens to parse
TokReturn ==
    /\ pc = "tokenize"
    /\ ~has_next
    /\ tokens' = Flush(tokens, buffer)
    /\ buffer' = ""
    /\ pc' = "parse"
    /\ UNCHANGED <<botVars, handlerVars, code, src, open, parseVars, result, overflow_checks>>

----------------------------------------------------------------------------
(* parse *)

\* the tokens a freely drawn slice is made of
TokenAlphabet ==
    {LeftParen, RightParen, Not, Comma,
     Input(0), Input(1), Input(UsizeMax),
     Identifier("and"), Identifier("or"), Identifier("xor")}

\* Option::None, where a token is expected
NoToken == [type |-> "None"]

\* Peekable::next / Peekable::peek at position p of the slice toks: the token
\* there, or None at its end. A slice still being drawn (o) either ends
\* here or goes on with any token of TokenAlphabet.
Draws(toks, p, o) ==
    IF p < Len(toks)
    THEN {[some |-> TRUE, token |-> toks[p + 1], tokens |-> toks, open |-> o]}
    ELSE {[some |-> FALSE, token |-> NoToken, tokens |-> toks, open |-> FALSE]}
         \cup IF o /\ Len(toks) < MaxTokens
              THEN {[some |-> TRUE, token |-> t, tokens |-> Append(toks, t),
                     open |-> TRUE] : t \in TokenAlphabet}
              ELSE {}

\* `while let Some(token) = tokens.next()`
iter_next == Draws(tokens, pos, open)

\* return from parse
Return(ret) ==
    /\ result' = ret
    /\ pc' = "done"

\* Advance with the iterator left where it was
Advance_NoStep(d, n) ==
    /\ tokens' = d.tokens
    /\ open' = d.open
    /\ pos' = pos

\* the loop goes on with the iterator as draw d left it, n tokens further
Advance(d, n) ==
    /\ tokens' = d.tokens
    /\ open' = d.open
    /\ pos' = pos + n

\* if inverted { not(component) } else { component }
Invert(flag, component) == IF flag THEN not(component) ELSE component

\* PushOperand with the operand pushed to the bottom group
PushOperand_ToRoot(stk, component) ==
    [stk EXCEPT ![1].operands = Append(@, component)]

\* stack.last_mut().unwrap().1.push(component)
PushOperand(stk, component) ==
    [stk EXCEPT ![Len(stk)].operands = Append(@, component)]

\* Popped with the bottom group removed in place of the top
Popped_Bottom(stk) == Tail(stk)

\* stack.pop(): the stack without its top
Popped(stk) == SubSeq(stk, 1, Len(stk) - 1)

\* index + 1 on usize, when the build does not check overflow
WrappingInc(index) == (index + 1) % (2 ^ UsizeBits)

\* CallNode with every name but `and` taken for `or`
CallNode_DefaultOr(top) ==
    IF top.call_name = "and" THEN Ok(Invert(top.inverted, and(top.operands)))
    ELSE Ok(Invert(top.inverted, or(top.operands)))

\* the RightParen arm's match on call_name: the node built from the popped
\* group, or no node for an unknown function
CallNode(top) ==
    IF top.call_name = "and" THEN Ok(Invert(top.inverted, and(top.operands)))
    ELSE IF top.call_name = "or" THEN Ok(Invert(top.inverted, or(top.operands)))
    ELSE Err(UnknownFunction(top.call_name))

\* OperandIllegal with an operand let through wherever it stands
OperandIllegal_Never(expect) == FALSE

\* the first check of the Input and Identifier arms: if !expect_next
OperandIllegal(expect) == ~expect

\* RightParenIllegal without the test of expect_next
RightParenIllegal_DepthOnly(stk, expect) == Len(stk) = 1

\* the RightParen arm's first check: expect_next || stack.len() == 1
RightParenIllegal(stk, expect) == expect \/ Len(stk) = 1

\* CommaIllegal without the test of expect_next
CommaIllegal_DepthOnly(stk, expect) == Len(stk) = 1

\* the Comma arm's check: stack.len() == 1 || expect_next
CommaIllegal(stk, expect) == Len(stk) = 1 \/ expect

\* TrailingTokens with the remaining tokens never looked at
TrailingTokens_Never(stk, k) == FALSE

\* stack.len() == 1 && tokens.peek().is_some(), k being what peek draws
TrailingTokens(stk, k) == Len(stk) = 1 /\ k.some

\* Finish without the test of the stack's depth
Finish_NoDepthCheck(stk, max) ==
    IF stk[Len(stk)].operands = <<>> THEN Err(EmptyExpression)
    ELSE LET operands == stk[Len(stk)].operands
         IN  Ok([input_count |-> max, component |-> operands[Len(operands)]])

\* Finish with the two errors exchanged
Finish_ErrorsSwapped(stk, max) ==
    IF Len(stk) # 1 THEN Err(EmptyExpression)
    ELSE IF stk[Len(stk)].operands = <<>> THEN Err(InvalidParentheses)
    ELSE LET operands == stk[Len(stk)].operands
         IN  Ok([input_count |-> max, component |-> operands[Len(operands)]])

\* the checks after the loop and the value returned
Finish(stk, max) ==
    IF Len(stk) # 1 THEN Err(InvalidParentheses)
    ELSE IF stk[Len(stk)].operands = <<>> THEN Err(EmptyExpression)
    ELSE LET operands == stk[Len(stk)].operands
         IN  Ok([input_count |-> max, component |-> operands[Len(operands)]])

\* ParseLeftParen with a LeftParen let through where an operand is expected
ParseLeftParen_Grouping ==
    /\ pc = "parse"
    /\ \E d \in iter_next :
        /\ d.some
        /\ d.token.type = "LeftParen"
        /\ Advance(d, 1)
        /\ IF expect_next
           THEN UNCHANGED <<result, pc>>
           ELSE Return(Err(UnexpectedToken(d.token)))
    /\ UNCHANGED <<botVars, handlerVars, code, tokVars, stack, inverted, expect_next,
                   max_input, overflow_checks>>

\* Token::LeftParen
ParseLeftParen ==
    /\ pc = "parse"
    /\ \E d \in iter_next :
        /\ d.some
        /\ d.token.type = "LeftParen"
        /\ Advance(d, 1)
        /\ Return(Err(UnexpectedToken(d.token)))
    /\ UNCHANGED <<botVars, handlerVars, code, tokVars, stack, inverted, expect_next, max_input,
                   overflow_checks>>

\* Token::RightParen
ParseRightParen ==
    /\ pc = "parse"
    /\ \E d \in iter_next :
        /\ d.some
        /\ d.token.type = "RightParen"
        /\ IF RightParenIllegal(stack, expect_next)
           THEN /\ Advance(d, 1)
                /\ Return(Err(UnexpectedRightParen))
                /\ UNCHANGED stack
           ELSE LET top == stack[Len(stack)]
                    rest == Popped(stack)
                IN  IF top.type # "Call"
                    THEN /\ Advance(d, 1)
                         /\ Return(Panic("unreachable"))
                         /\ stack' = rest
                    ELSE IF CallNode(top).kind = "Err"
                    THEN /\ Advance(d, 1)
                         /\ Return(CallNode(top))
                         /\ stack' = rest
                    ELSE /\ stack' = PushOperand(rest, CallNode(top).value)
                         /\ IF Len(rest) = 1
                            THEN \E k \in Draws(d.tokens, pos + 1, d.open) :
                                    /\ Advance(k, 1)
                                    /\ IF TrailingTokens(rest, k)
                                       THEN Return(Err(UnexpectedTokensAfterExpr))
                                       ELSE UNCHANGED <<result, pc>>
                            ELSE /\ Advance(d, 1)
                                 /\ UNCHANGED <<result, pc>>
    /\ UNCHANGED <<botVars, handlerVars, code, tokVars, inverted, expect_next, max_input,
                   overflow_checks>>

\* Token::Not
ParseNot ==
    /\ pc = "parse"
    /\ \E d \in iter_next :
        /\ d.some
        /\ d.token.type = "Not"
        /\ Advance(d, 1)
    /\ inverted' = ~inverted
    /\ UNCHANGED <<botVars, handlerVars, code, tokVars, stack, expect_next, max_input, result, pc,
                   overflow_checks>>

\* Token::Comma
ParseComma ==
    /\ pc = "parse"
    /\ \E d \in iter_next :
        /\ d.some
        /\ d.token.type = "Comma"
        /\ Advance(d, 1)
    /\ IF CommaIllegal(stack, expect_next)
       THEN /\ Return(Err(UnexpectedComma))
            /\ UNCHANGED expect_next
       ELSE /\ expect_next' = TRUE
            /\ UNCHANGED <<result, pc>>
    /\ UNCHANGED <<botVars, handlerVars, code, tokVars, stack, inverted, max_input, overflow_checks>>

\* Token::Input
ParseInput ==
    /\ pc = "parse"
    /\ \E d \in iter_next :
        /\ d.some
        /\ d.token.type = "Input"
        /\ LET index == d.token.index
               node == Invert(inverted, input(index))
           IN  IF OperandIllegal(expect_next)
               THEN /\ Advance(d, 1)
                    /\ Return(Err(UnexpectedToken(d.token)))
                    /\ UNCHANGED <<stack, inverted, expect_next, max_input>>
               ELSE IF index >= max_input /\ index = UsizeMax /\ overflow_checks
               THEN /\ Advance(d, 1)
                    /\ Return(Panic("attempt to add with overflow"))
                    /\ expect_next' = FALSE
                    /\ UNCHANGED <<stack, inverted, max_input>>
               ELSE /\ expect_next' = FALSE
                    /\ max_input' = IF index >= max_input
                                    THEN WrappingInc(index) ELSE max_input
                    /\ stack' = PushOperand(stack, node)
                    /\ IF Len(stack) = 1
                       THEN /\ \E k \in Draws(d.tokens, pos + 1, d.open) :
                                /\ Advance(k, 1)
                                /\ IF TrailingTokens(stack, k)
                                   THEN Return(Err(UnexpectedTokensAfterExpr))
                                   ELSE /\ pc' = "finish"
                                        /\ UNCHANGED result
                            /\ UNCHANGED inverted
                       ELSE /\ Advance(d, 1)
                            /\ inverted' = FALSE
                            /\ UNCHANGED <<result, pc>>
    /\ UNCHANGED <<botVars, handlerVars, code, tokVars, overflow_checks>>

\* MissingLeftParen reporting the token found in place of the LeftParen
MissingLeftParen_ReportsNext(identifier, next) == Err(UnexpectedToken(next))

\* the Identifier arm when the token after it is not a LeftParen:
\* Err(UnexpectedToken { token: token.clone() }), `token` being the Identifier
MissingLeftParen(identifier, next) == Err(UnexpectedToken(identifier))

\* ParseIdentifier with the name looked up as soon as the call is opened
ParseIdentifier_ChecksName ==
    /\ pc = "parse"
    /\ \E d \in iter_next :
        /\ d.some
        /\ d.token.type = "Identifier"
        /\ IF OperandIllegal(expect_next)
           THEN /\ Advance(d, 1)
                /\ Return(Err(UnexpectedToken(d.token)))
                /\ UNCHANGED <<stack, inverted>>
           ELSE \E next \in Draws(d.tokens, pos + 1, d.open) :
                    IF ~next.some
                    THEN /\ Advance(next, 1)
                         /\ Return(Err(UnexpectedEndOfSource))
                         /\ UNCHANGED <<stack, inverted>>
                    ELSE IF next.token.type # "LeftParen"
                    THEN /\ Advance(next, 2)
                         /\ Return(MissingLeftParen(d.token, next.token))
                         /\ UNCHANGED <<stack, inverted>>
                    ELSE IF d.token.value \notin {"and", "or"}
                    THEN /\ Advance(next, 2)
                         /\ Return(Err(UnknownFunction(d.token.value)))
                         /\ UNCHANGED <<stack, inverted>>
                    ELSE /\ Advance(next, 2)
                         /\ stack' = Append(stack, Call(d.token.value, inverted))
                         /\ inverted' = FALSE
                         /\ UNCHANGED <<result, pc>>
    /\ UNCHANGED <<botVars, handlerVars, code, tokVars, expect_next, max_input,
                   overflow_checks>>

\* Token::Identifier
ParseIdentifier ==
    /\ pc = "parse"
    /\ \E d \in iter_next :
        /\ d.some
        /\ d.token.type = "Identifier"
        /\ IF OperandIllegal(expect_next)
           THEN /\ Advance(d, 1)
                /\ Return(Err(UnexpectedToken(d.token)))
                /\ UNCHANGED <<stack, inverted>>
           ELSE \E next \in Draws(d.tokens, pos + 1, d.open) :
                    IF ~next.some
                    THEN /\ Advance(next, 1)
                         /\ Return(Err(UnexpectedEndOfSource))
                         /\ UNCHANGED <<stack, inverted>>
                    ELSE IF next.token.type # "LeftParen"
                    THEN /\ Advance(next, 2)
                         /\ Return(MissingLeftParen(d.token, next.token))
                         /\ UNCHANGED <<stack, inverted>>
                    ELSE /\ Advance(next, 2)
                         /\ stack' = Append(stack, Call(d.token.value, inverted))
                         /\ inverted' = FALSE
                         /\ UNCHANGED <<result, pc>>
    /\ UNCHANGED <<botVars, handlerVars, code, tokVars, expect_next, max_input, overflow_checks>>

\* the loop's exit (the iterator yields None, or the Input arm's break) and
\* the checks after it
ParseFinish ==
    /\ \/ pc = "finish"
       \/ pc = "parse" /\ \E d \in iter_next : ~d.some
    /\ open' = FALSE
    /\ Return(Finish(stack, max_input))
    /\ UNCHANGED <<botVars, handlerVars, code, tokVars, tokens, parseVars, overflow_checks>>

----------------------------------------------------------------------------
(* The statements and slices the front end is run on *)

\* the characters a freely drawn statement is made of
CodeChars == {"(", ")", "!", ",", ".", " ", "0", "1", "3", "9", "a", "n"}

\* every statement of at most MaxCodeLen characters of CodeChars
BoundedTexts == UNION {[1..n -> CodeChars] : n \in 0..MaxCodeLen}

\* and(.0,.1)
SrcAnd2 ==
    <<"a", "n", "d", "(", ".", "0", ",", ".", "1", ")">>

\* !.0
SrcNotInput ==
    <<"!", ".", "0">>

\* or(and(.0,.1),!.2)
SrcNested ==
    <<"o", "r", "(", "a", "n", "d", "(", ".", "0", ",", ".", "1", ")", ",", "!", ".", "2", ")">>

\* and(.0,.1))
SrcExtraParen ==
    <<"a", "n", "d", "(", ".", "0", ",", ".", "1", ")", ")">>

\* and(.0,.1
SrcUnclosed ==
    <<"a", "n", "d", "(", ".", "0", ",", ".", "1">>

\* xor(.0,.1)
SrcXor ==
    <<"x", "o", "r", "(", ".", "0", ",", ".", "1", ")">>

\* .0 .1
SrcTwoInputs ==
    <<".", "0", " ", ".", "1">>

\* and(.0,,.1)
SrcDoubleComma ==
    <<"a", "n", "d", "(", ".", "0", ",", ",", ".", "1", ")">>

\* not(.0)
SrcNotCall ==
    <<"n", "o", "t", "(", ".", "0", ")">>

\* and(
SrcOpenCall ==
    <<"a", "n", "d", "(">>

\* AND(.0)
SrcUpperAnd ==
    <<"A", "N", "D", "(", ".", "0", ")">>

\* the decimal digits of n, as format!("{n}") writes them
RECURSIVE Decimal(_)
Decimal(n) ==
    IF n < 10 THEN <<AsciiDigits[n + 1]>>
    ELSE Decimal(n \div 10) \o <<AsciiDigits[(n % 10) + 1]>>

\* and(.M) with M the largest usize
SrcMaxIndexCall ==
    <<"a", "n", "d", "(", ".">> \o Decimal(UsizeMax) \o <<")">>

\* and(.0,.99): a digit run that fits no usize of the widths modelled
SrcBadNumber ==
    <<"a", "n", "d", "(", ".", "0", ",", ".", "9", "9", ")">>

\* and or
SrcTwoNames ==
    <<"a", "n", "d", " ", "o", "r">>

\* and(.0!,.1)
SrcNotAfterOperand ==
    <<"a", "n", "d", "(", ".", "0", "!", ",", ".", "1", ")">>

\* and(.0!)
SrcNotBeforeClose ==
    <<"a", "n", "d", "(", ".", "0", "!", ")">>

\* and()
SrcEmptyCall ==
    <<"a", "n", "d", "(", ")">>

\* and(.0,)
SrcTrailingComma ==
    <<"a", "n", "d", "(", ".", "0", ",", ")">>

\* and(!)
SrcCallOfNot ==
    <<"a", "n", "d", "(", "!", ")">>

\* or(.0,and())
SrcNestedEmptyCall ==
    <<"o", "r", "(", ".", "0", ",", "a", "n", "d", "(", ")", ")">>

\* xor(,
SrcXorComma ==
    <<"x", "o", "r", "(", ",">>

\* xor()
SrcXorEmpty ==
    <<"x", "o", "r", "(", ")">>

\* xor(.0
SrcXorUnclosed ==
    <<"x", "o", "r", "(", ".", "0">>

\* xor(foo(.0))
SrcXorFoo ==
    <<"x", "o", "r", "(", "f", "o", "o", "(", ".", "0", ")", ")">>

\* and((.0))
SrcDoubleParen ==
    <<"a", "n", "d", "(", "(", ".", "0", ")", ")">>

\* and(.0 .1)
SrcNoComma ==
    <<"a", "n", "d", "(", ".", "0", " ", ".", "1", ")">>

\* and(or(.0) or(.1))
SrcNoCommaCalls ==
    <<"a", "n", "d", "(", "o", "r", "(", ".", "0", ")", " ", "o", "r", "(", ".", "1", ")", ")">>

\* !and(.0,.1)
SrcNotAnd2 ==
    <<"!", "a", "n", "d", "(", ".", "0", ",", ".", "1", ")">>

\* !and(!.0)
SrcNotAndNot ==
    <<"!", "a", "n", "d", "(", "!", ".", "0", ")">>

\* the example statements
SampleTexts ==
    {SrcNotAndNot,
     SrcNotAnd2,
     SrcNoCommaCalls,
     SrcNoComma,
     SrcDoubleParen,
     SrcXorFoo,
     SrcXorUnclosed,
     SrcXorEmpty,
     SrcXorComma,
     SrcNestedEmptyCall,
     SrcCallOfNot,
     SrcTrailingComma,
     SrcEmptyCall,
     SrcNotBeforeClose,
     SrcNotAfterOperand,
     SrcTwoNames,
     SrcBadNumber,
     SrcMaxIndexCall,
     SrcAnd2,
     SrcNotInput,
     SrcNested,
     SrcExtraParen,
     SrcUnclosed,
     SrcXor,
     SrcTwoInputs,
     SrcDoubleComma,
     SrcNotCall,
     SrcOpenCall,
     SrcUpperAnd}

Texts == BoundedTexts \cup SampleTexts

----------------------------------------------------------------------------
(* The emulate command's modal handler: handle_modal *)

\* the most inputs a statement may use
MaxInputs == 16
\* the most statements of a submission
MaxLines == 3

\* no Response: handle_modal has not returned
NoResponse == [kind |-> "None"]

\* Response::success
success(title, text) ==
    [kind |-> "Regular", success |-> TRUE, title |-> title, text |-> text]

\* Response::failure
failure(title, text) ==
    [kind |-> "Regular", success |-> FALSE, title |-> title, text |-> text]

\* {:?} of a String of characters that need no escape
DebugString(string) == "\"" \o string \o "\""

\* {:?} of a Token, as derive(Debug) writes it
DebugToken(token) ==
    CASE token.type = "Input" ->
             PushAll("Input { index: ", Decimal(token.index)) \o " }"
      [] token.type = "Identifier" ->
             "Identifier { value: " \o DebugString(token.value) \o " }"
      [] OTHER -> token.type

\* Display for Error: err.to_string()
to_string(error) ==
    CASE error.type = "InvalidNumber" ->
             DebugString(error.text) \o " is not a valid number"
      [] error.type = "UnexpectedToken" ->
             DebugToken(error.token) \o " was not expected"
      [] error.type = "UnexpectedRightParen" ->
             "Invalid closing parenthesis in code"
      [] error.type = "UnknownFunction" ->
             "The function " \o DebugString(error.name) \o " is unknown"
      [] error.type = "UnexpectedComma" -> "Unexpected comma in code"
      [] error.type = "UnexpectedTokensAfterExpr" ->
             "Unexpected tokens after expression"
      [] error.type = "InvalidParentheses" -> "Invalid parentheses in code"
      [] error.type = "EmptyExpression" -> "The expression cannot be empty"
      [] error.type = "UnexpectedEndOfSource" -> "Unexpected end of code"

\* ParsingErrorTitle with the statements counted from one
ParsingErrorTitle_OneBased(index) ==
    PushAll("[", Decimal(index + 1)) \o "] Parsing error"

\* format!("[{i}] Parsing error")
ParsingErrorTitle(index) == PushAll("[", Decimal(index)) \o "] Parsing error"

\* format!("[{i}] Emulation error")
EmulationErrorTitle(index) ==
    PushAll("[", Decimal(index)) \o "] Emulation error"

\* TooManyInputs with the limit itself refused
TooManyInputs_AtLimit(input_count) == input_count >= MaxInputs

\* if input_count > 16
TooManyInputs(input_count) == input_count > MaxInputs

\* the three pushes to `response` for statement index: the header line
\* "[{i}]:" and, between code fences, the emulation the emulator crate
\* printed for its arguments
Block(index, arguments) ==
    [header |-> PushAll("[", Decimal(index)) \o "]:\n",
     emulation |-> arguments]

\* the position of the first "\n" of text, 0 if it has none
RECURSIVE FindNewline(_, _)
FindNewline(text, k) ==
    IF k > Len(text) THEN 0
    ELSE IF text[k] = "\n" THEN k
    ELSE FindNewline(text, k + 1)

\* input.value.split('\n'), collected
RECURSIVE Split(_)
Split(text) ==
    LET k == FindNewline(text, 1)
    IN  IF k = 0 THEN <<text>>
        ELSE <<SubSeq(text, 1, k - 1)>> \o Split(SubSeq(text, k + 1, Len(text)))

\* Enter with the pending inversion left as the last call left it
Enter_InvertedKept(statement) ==
    /\ code' = statement
    /\ src' = statement
    /\ buffer' = ""
    /\ tokens' = <<>>
    /\ open' = FALSE
    /\ pos' = 0
    /\ stack' = <<Root>>
    /\ inverted' = inverted
    /\ expect_next' = TRUE
    /\ max_input' = 0
    /\ result' = Running
    /\ pc' = "tokenize"

\* tokenize(statement) is called, parse(&tokens) after it: the locals both
\* start from
Enter(statement) ==
    /\ code' = statement
    /\ src' = statement
    /\ buffer' = ""
    /\ tokens' = <<>>
    /\ open' = FALSE
    /\ pos' = 0
    /\ stack' = <<Root>>
    /\ inverted' = FALSE
    /\ expect_next' = TRUE
    /\ max_input' = 0
    /\ result' = Running
    /\ pc' = "tokenize"

\* handle_modal returns ret
Respond(ret) ==
    /\ reply' = ret
    /\ pc' = "returned"
    /\ UNCHANGED <<code, tokVars, tokens, open, parseVars, result>>

\* tokenize or parse returned Err(err)
EmulateParsingError ==
    /\ \/ pc = "lex_error"
       \/ pc = "done" /\ result.kind = "Err"
    /\ Respond(failure(ParsingErrorTitle(statement_i),
                       to_string(result.error)))
    /\ UNCHANGED <<botVars, input_value, statement_i, response, emulators, outcomes,
                   overflow_checks>>

\* the statement uses too many inputs
EmulateTooManyInputs ==
    /\ pc = "done"
    /\ result.kind = "Ok"
    /\ TooManyInputs(result.value.input_count)
    /\ Respond(failure(EmulationErrorTitle(statement_i), "Too many inputs"))
    /\ UNCHANGED <<botVars, input_value, statement_i, response, emulators, outcomes,
                   overflow_checks>>

\* Emulator::new(input_count, component) returned Err
EmulatorNewFails ==
    /\ pc = "done"
    /\ result.kind = "Ok"
    /\ ~TooManyInputs(result.value.input_count)
    /\ emulators' = Append(emulators, result.value)
    /\ Respond(failure(EmulationErrorTitle(statement_i),
                       "Could not create emulator"))
    /\ UNCHANGED <<botVars, input_value, statement_i, response, outcomes, overflow_checks>>

\* emulator.emulate_all() returned Err
EmulateAllFails ==
    /\ pc = "done"
    /\ result.kind = "Ok"
    /\ ~TooManyInputs(result.value.input_count)
    /\ emulators' = Append(emulators, result.value)
    /\ Respond(failure(EmulationErrorTitle(statement_i), "Could not emulate"))
    /\ UNCHANGED <<botVars, input_value, statement_i, response, outcomes, overflow_checks>>

\* the statement was emulated: its block is pushed and the loop goes on
\* with the next statement
EmulateStatement ==
    /\ pc = "done"
    /\ result.kind = "Ok"
    /\ ~TooManyInputs(result.value.input_count)
    /\ statement_i + 1 < Len(Split(input_value))
    /\ emulators' = Append(emulators, result.value)
    /\ response' = Append(response, Block(statement_i, result.value))
    /\ statement_i' = statement_i + 1
    /\ Enter(Split(input_value)[statement_i + 2])
    /\ UNCHANGED <<botVars, input_value, reply, outcomes, overflow_checks>>

\* the last statement was emulated: its block is pushed, the loop ends and
\* Response::success("Success", response) is returned
EmulateSuccess ==
    /\ pc = "done"
    /\ result.kind = "Ok"
    /\ ~TooManyInputs(result.value.input_count)
    /\ statement_i + 1 = Len(Split(input_value))
    /\ emulators' = Append(emulators, result.value)
    /\ response' = Append(response, Block(statement_i, result.value))
    /\ Respond(success("Success", response'))
    /\ UNCHANGED <<botVars, input_value, statement_i, outcomes, overflow_checks>>

\* tokenize and parse called again and again, whatever they return: the call
\* on a statement has returned, the next statement is handed to a new call
CallAgain ==
    /\ \/ pc = "lex_error"
       \/ pc = "done" /\ result.kind # "Panic"
    /\ outcomes' =
          Append(outcomes, [code |-> code, tokens |-> tokens, result |-> result])
    /\ IF statement_i + 1 < Len(Split(input_value))
       THEN /\ statement_i' = statement_i + 1
            /\ Enter(Split(input_value)[statement_i + 2])
       ELSE /\ pc' = "returned"
            /\ UNCHANGED <<statement_i, code, tokVars, tokens, open,
                           parseVars, result>>
    /\ UNCHANGED <<botVars, input_value, response, reply, emulators, overflow_checks>>

\* .15: sixteen inputs
SrcSixteenInputs ==
    <<".", "1", "5">>

\* .16: seventeen inputs
SrcSeventeenInputs ==
    <<".", "1", "6">>

\* the statements of the submissions
Lines ==
    {SrcAnd2,
     SrcNotInput,
     SrcSixteenInputs,
     SrcSeventeenInputs,
     <<".">> \o Decimal(UsizeMax),
     <<" ", ".", "0">>,
     <<"(">>,
     <<".">>,
     <<>>}

\* statements joined by "\n"
RECURSIVE Join(_)
Join(statements) ==
    IF Len(statements) = 1 THEN statements[1]
    ELSE statements[1] \o <<"\n">> \o Join(Tail(statements))

\* the texts submitted: up to MaxLines statements
Values == {Join(ls) : ls \in UNION {[1..n -> Lines] : n \in 1..MaxLines}}

----------------------------------------------------------------------------
(* The bot: interaction handlers running concurrently on one Handler *)

\* how many interactions are handled concurrently
MaxHandlers == 3
\* Handler.lexicons has this many lexicons, indexed from 0
LexiconCount == 2

\* the handler tasks
Tasks == 1..MaxHandlers

\* no task: the Mutex is free
NoTask == 0

\* a task that handles nothing yet
Idle == [pc |-> "idle"]

\* the modals Response::handle keeps in Handler.modals:
\* Modal::LexiconAdd { index } and Modal::LexiconUpdate { index }
RegisteredModals ==
    [modal : {"LexiconAdd", "LexiconUpdate"}, index : 0..(LexiconCount - 1)]

\* Mutex::lock with no regard for the holder
CanLock_Always(holder) == TRUE

\* Mutex::lock returns once no task holds the Mutex
CanLock(holder) == holder = NoTask

\* HashMap::insert
Insert(map, key, val) ==
    [k \in DOMAIN map \cup {key} |-> IF k = key THEN val ELSE map[k]]

\* HashMap::remove, the map left
Remove(map, key) == [k \in DOMAIN map \ {key} |-> map[k]]

\* a /lexicon add or /lexicon update command produced Response::modal with
\* this Modal; Response::handle starts on it
StartModalResponse(t) ==
    /\ tasks[t] = Idle
    /\ \E modal \in RegisteredModals :
          tasks' = [tasks EXCEPT ![t] = [pc |-> "respond", modal |-> modal]]
    /\ UNCHANGED <<registryVars, lexiconVars, frontVars>>

\* Response::handle: let mut modals = handler.modals.lock().unwrap()
RegisterLock(t) ==
    /\ tasks[t].pc = "respond"
    /\ CanLock(modals_lock)
    /\ modals_lock' = t
    /\ tasks' = [tasks EXCEPT ![t].pc = "respond_locked"]
    /\ UNCHANGED <<modals, issued, handled, lexiconVars, frontVars>>

\* Response::handle: let id = modals.0; modals.1.insert(id, modal)
RegisterInsert(t) ==
    /\ tasks[t].pc = "respond_locked"
    /\ modals' = [modals EXCEPT
                    !.entries = Insert(@, modals.counter, tasks[t].modal)]
    /\ tasks' = [tasks EXCEPT ![t] =
                    [pc |-> "inserted", modal |-> tasks[t].modal,
                     id |-> modals.counter]]
    /\ UNCHANGED <<modals_lock, issued, handled, lexiconVars, frontVars>>

\* Response::handle: modals.0 += 1; the guard is dropped and the response is
\* given custom_id(id)
RegisterIncrement(t) ==
    /\ tasks[t].pc = "inserted"
    /\ modals' = [modals EXCEPT !.counter = @ + 1]
    /\ modals_lock' = NoTask
    /\ issued' = Append(issued, [id |-> tasks[t].id, modal |-> tasks[t].modal])
    /\ tasks' = [tasks EXCEPT ![t] = [pc |-> "responded"]]
    /\ UNCHANGED <<handled, lexiconVars, frontVars>>

\* interaction_create gets a ModalSubmit whose custom_id parses as this number
StartSubmission(t) ==
    /\ tasks[t] = Idle
    /\ \E custom_id \in 0..(MaxHandlers - 1) :
          tasks' = [tasks EXCEPT
                      ![t] = [pc |-> "submit", custom_id |-> custom_id]]
    /\ UNCHANGED <<registryVars, lexiconVars, frontVars>>

\* interaction_create: let mut modals = self.modals.lock().unwrap()
SubmitLock(t) ==
    /\ tasks[t].pc = "submit"
    /\ CanLock(modals_lock)
    /\ modals_lock' = t
    /\ tasks' = [tasks EXCEPT ![t].pc = "submit_locked"]
    /\ UNCHANGED <<modals, issued, handled, lexiconVars, frontVars>>

\* interaction_create: modals.1.remove(&custom_id), the guard dropped; on
\* None the handler returns, on Some(modal) it calls handle_add or
\* handle_update with the modal's index
SubmitRemove(t) ==
    /\ tasks[t].pc = "submit_locked"
    /\ modals_lock' = NoTask
    /\ IF tasks[t].custom_id \in DOMAIN modals.entries
       THEN /\ modals' = [modals EXCEPT
                            !.entries = Remove(@, tasks[t].custom_id)]
            /\ handled' =
                  Append(handled,
                         [custom_id |-> tasks[t].custom_id,
                          modal |-> modals.entries[tasks[t].custom_id]])
       ELSE UNCHANGED <<modals, handled>>
    /\ tasks' = [tasks EXCEPT ![t] =
                    [pc |-> "submitted", custom_id |-> tasks[t].custom_id,
                     found |-> tasks[t].custom_id \in DOMAIN modals.entries]]
    /\ UNCHANGED <<issued, lexiconVars, frontVars>>

----------------------------------------------------------------------------
(* The lexicon files: ron::to_string, ron::from_str *)

\* a piece of a RON document: punctuation, or a literal with its value
\* (quoting and escaping of a literal are taken as one piece)
Piece(t, v) == [t |-> t, v |-> v]

\* the order in which a BTreeMap iterates over the letters and the words
KeyOrder == <<"A", "B", "a", "ab", "b">>

\* the written entries of a map (key to pieces) in the order of their keys,
\* from a place of that order on, a comma between two of them
RECURSIVE Entries(_, _)
Entries(written, at) ==
    IF at > Len(KeyOrder) THEN <<>>
    ELSE IF KeyOrder[at] \notin DOMAIN written THEN Entries(written, at + 1)
    ELSE LET rest == Entries(written, at + 1)
         IN  written[KeyOrder[at]]
                \o (IF rest = <<>> THEN <<>> ELSE <<Piece(",", "")>> \o rest)

\* ron::to_string of a BTreeMap<String, String>
WordSetDocument(word_set) ==
    LET written == [word \in DOMAIN word_set |->
                      <<Piece("string", word), Piece(":", ""),
                        Piece("string", word_set[word])>>]
    IN  <<Piece("{", "")>> \o Entries(written, 1) \o <<Piece("}", "")>>

\* ron::to_string(&lexicon.words)
ron_to_string(words) ==
    LET written == [c \in DOMAIN words |->
                      <<Piece("char", c), Piece(":", "")>>
                         \o WordSetDocument(words[c])]
    IN  <<Piece("{", "")>> \o Entries(written, 1) \o <<Piece("}", "")>>

\* ron::to_string(&Lexicon::default()): the struct with its four fields
DefaultDocument ==
    <<Piece("(", ""),
      Piece("ident", "name"), Piece(":", ""), Piece("string", ""),
      Piece(",", ""),
      Piece("ident", "file"), Piece(":", ""), Piece("string", ""),
      Piece(",", ""),
      Piece("ident", "target_file"), Piece(":", ""), Piece("string", ""),
      Piece(",", ""),
      Piece("ident", "words"), Piece(":", ""), Piece("{", ""), Piece("}", ""),
      Piece(")", "")>>

\* the piece at a position of a document, or the end of the document
PieceAt(document, at) ==
    IF at \in DOMAIN document THEN document[at].t ELSE "end"

\* the entries of a BTreeMap<String, String> read from a position after its
\* opening brace: the map and the position after its closing brace
RECURSIVE ReadWordSet(_, _, _)
ReadWordSet(document, at, word_set) ==
    IF PieceAt(document, at) = "}" THEN Ok([map |-> word_set, next |-> at + 1])
    ELSE IF /\ PieceAt(document, at) = "string"
            /\ PieceAt(document, at + 1) = ":"
            /\ PieceAt(document, at + 2) = "string"
    THEN LET read == Insert(word_set, document[at].v, document[at + 2].v)
         IN  IF PieceAt(document, at + 3) = ","
             THEN ReadWordSet(document, at + 4, read)
             ELSE IF PieceAt(document, at + 3) = "}"
             THEN Ok([map |-> read, next |-> at + 4])
             ELSE Err("ExpectedMapEnd")
    ELSE Err("ExpectedString")

\* the entries of a BTreeMap<char, BTreeMap<String, String>> read from a
\* position after its opening brace
RECURSIVE ReadWords(_, _, _)
ReadWords(document, at, words) ==
    IF PieceAt(document, at) = "}" THEN Ok([map |-> words, next |-> at + 1])
    ELSE IF /\ PieceAt(document, at) = "char"
            /\ PieceAt(document, at + 1) = ":"
    THEN IF PieceAt(document, at + 2) # "{" THEN Err("ExpectedMap")
         ELSE LET word_set == ReadWordSet(document, at + 3, <<>>)
              IN  IF word_set.kind = "Err" THEN word_set
                  ELSE LET read == Insert(words, document[at].v,
                                          word_set.value.map)
                           after == word_set.value.next
                       IN  IF PieceAt(document, after) = ","
                           THEN ReadWords(document, after + 1, read)
                           ELSE IF PieceAt(document, after) = "}"
                           THEN Ok([map |-> read, next |-> after + 1])
                           ELSE Err("ExpectedMapEnd")
    ELSE Err("ExpectedChar")

\* ron::from_str::<BTreeMap<char, BTreeMap<String, String>>>: the document
\* is one map and nothing after it
ron_from_str(document) ==
    IF PieceAt(document, 1) # "{" THEN Err("ExpectedMap")
    ELSE LET words == ReadWords(document, 2, <<>>)
         IN  IF words.kind = "Err" THEN words
             ELSE IF words.value.next # Len(document) + 1
             THEN Err("TrailingCharacters")
             ELSE Ok(words.value.map)

\* a lexicon file that write / write_all wrote in full
Written(document) == [exists |-> TRUE, document |-> document]

\* !path.exists() || !path.is_file()
Missing == [exists |-> FALSE, document |-> <<>>]

----------------------------------------------------------------------------
(* The lexicon operations: handle_add, handle_update, /lexicon remove *)

\* how many lexicon operations run concurrently
MaxWriters == 2

\* the tasks that run lexicon operations
Writers == 1..MaxWriters

\* the words and descriptions submitted
WordSet == {"a", "ab", "b"}
Descriptions == {"x", "y"}

\* word.chars().next().unwrap().to_uppercase().next().unwrap(), on WordSet
FirstUpper(word) == IF word = "b" THEN "B" ELSE "A"

\* BTreeMap::new()
NoWords == <<>>

\* lexicon.words with this word under its letter
WithWord(words, word, description) ==
    LET c == FirstUpper(word)
        word_set == IF c \in DOMAIN words THEN words[c] ELSE NoWords
    IN  Insert(words, c, Insert(word_set, word, description))

\* lexicon.words without this word, and without its letter when that was the
\* letter's last word
WithoutWord(words, word) ==
    LET c == FirstUpper(word)
        word_set == Remove(words[c], word)
    IN  IF DOMAIN word_set = {} THEN Remove(words, c)
        ELSE Insert(words, c, word_set)

\* lexicon.words has this word
HasWord(words, word) ==
    /\ FirstUpper(word) \in DOMAIN words
    /\ word \in DOMAIN words[FirstUpper(word)]

\* the next interaction goes to the first task that has none: the tasks'
\* numbers name nothing in the program
Free(t) ==
    /\ tasks[t] = Idle
    /\ \A u \in Tasks : u < t => tasks[u] # Idle

\* the handler returns this Response: its lexicon's guard is dropped
Reply(t, ret) ==
    /\ replies' = [replies EXCEPT ![t] =
                      [op |-> tasks[t].op, index |-> tasks[t].index,
                       word |-> tasks[t].word, response |-> ret]]
    /\ lexicon_locks' = [lexicon_locks EXCEPT ![tasks[t].index + 1] = NoTask]
    /\ tasks' = [tasks EXCEPT ![t] = [pc |-> "done"]]

\* the handler holds its lexicon's guard; `before` remembers the word map it
\* found, for the statements about what an operation leaves behind
Locked(t) ==
    tasks' = [tasks EXCEPT ![t].pc = "locked",
                           ![t].before = lexicons[tasks[t].index + 1]]

\* a modal submission reached handle_add or handle_update with its Modal's
\* index and the two texts of the modal
StartModalOperation(t) ==
    /\ Free(t)
    /\ \E op \in {"add", "update"}, index \in 0..(LexiconCount - 1),
          word \in WordSet, description \in Descriptions :
          tasks' = [tasks EXCEPT ![t] =
                      [pc |-> "enter", op |-> op, index |-> index,
                       word |-> word, description |-> description,
                       scan |-> 0, before |-> NoWords]]
    /\ UNCHANGED <<registryVars, lexiconVars, frontVars>>

\* a /lexicon remove command reached run's "remove" arm with the name of
\* lexicon `index` and a word
StartRemove(t) ==
    /\ Free(t)
    /\ \E index \in 0..(LexiconCount - 1), word \in WordSet :
          tasks' = [tasks EXCEPT ![t] =
                      [pc |-> "scan", op |-> "remove", index |-> index,
                       word |-> word, description |-> "", scan |-> 0,
                       before |-> NoWords]]
    /\ UNCHANGED <<registryVars, lexiconVars, frontVars>>

\* handle_add / handle_update: handler.lexicons[index].lock().unwrap()
LexiconLock(t) ==
    /\ tasks[t].pc = "enter"
    /\ CanLock(lexicon_locks[tasks[t].index + 1])
    /\ lexicon_locks' = [lexicon_locks EXCEPT ![tasks[t].index + 1] = t]
    /\ Locked(t)
    /\ UNCHANGED <<registryVars, lexicons, disk, staged, commits, replies,
                   frontVars>>

\* run, "remove": one iteration of the loop over handler.lexicons: the
\* lexicon is locked; its guard is kept if the name is the one asked for and
\* dropped otherwise
RemoveScan(t) ==
    /\ tasks[t].pc = "scan"
    /\ CanLock(lexicon_locks[tasks[t].scan + 1])
    /\ IF tasks[t].scan = tasks[t].index
       THEN /\ lexicon_locks' = [lexicon_locks EXCEPT ![tasks[t].scan + 1] = t]
            /\ Locked(t)
       ELSE /\ tasks' = [tasks EXCEPT ![t].scan = @ + 1]
            /\ UNCHANGED lexicon_locks
    /\ UNCHANGED <<registryVars, lexicons, disk, staged, commits, replies,
                   frontVars>>

\* handle_add, after the lock: the word is looked up under its letter and
\* inserted if it is new, before anything is written
AddEntry(t) ==
    /\ tasks[t].pc = "locked"
    /\ tasks[t].op = "add"
    /\ LET index == tasks[t].index
           words == lexicons[index + 1]
       IN  IF HasWord(words, tasks[t].word)
           THEN /\ Reply(t, failure("Add entry error",
                            "The word already exists in the lexicon."))
                /\ UNCHANGED lexicons
           ELSE /\ lexicons' = [lexicons EXCEPT ![index + 1] =
                      WithWord(words, tasks[t].word, tasks[t].description)]
                /\ tasks' = [tasks EXCEPT ![t].pc = "update_lexicon"]
                /\ UNCHANGED <<lexicon_locks, replies>>
    /\ UNCHANGED <<registryVars, disk, staged, commits, frontVars>>

\* handle_update, after the lock: the entry is looked up, compared and
\* overwritten, before anything is written
UpdateEntry(t) ==
    /\ tasks[t].pc = "locked"
    /\ tasks[t].op = "update"
    /\ LET index == tasks[t].index
           words == lexicons[index + 1]
       IN  IF ~HasWord(words, tasks[t].word)
           THEN /\ Reply(t, failure("Update entry error",
                                    "The word could not be found."))
                /\ UNCHANGED lexicons
           ELSE IF words[FirstUpper(tasks[t].word)][tasks[t].word]
                      = tasks[t].description
           THEN /\ Reply(t, success("Success", "Nothing changed."))
                /\ UNCHANGED lexicons
           ELSE /\ lexicons' = [lexicons EXCEPT ![index + 1] =
                      WithWord(words, tasks[t].word, tasks[t].description)]
                /\ tasks' = [tasks EXCEPT ![t].pc = "update_lexicon"]
                /\ UNCHANGED <<lexicon_locks, replies>>
    /\ UNCHANGED <<registryVars, disk, staged, commits, frontVars>>

\* run, "remove", after the lexicon was found: the word is removed from its
\* letter's set, and the set with it when it became empty, before anything is
\* written
RemoveEntry(t) ==
    /\ tasks[t].pc = "locked"
    /\ tasks[t].op = "remove"
    /\ LET index == tasks[t].index
           words == lexicons[index + 1]
       IN  IF ~HasWord(words, tasks[t].word)
           THEN /\ Reply(t, failure("Remove entry error",
                                    "The word could not be found."))
                /\ UNCHANGED lexicons
           ELSE /\ lexicons' = [lexicons EXCEPT ![index + 1] =
                                  WithoutWord(words, tasks[t].word)]
                /\ tasks' = [tasks EXCEPT ![t].pc = "update_lexicon"]
                /\ UNCHANGED <<lexicon_locks, replies>>
    /\ UNCHANGED <<registryVars, disk, staged, commits, frontVars>>

\* update_lexicon returned true: both files hold the word map
UpdateLexicon(t) ==
    /\ tasks[t].pc = "update_lexicon"
    /\ disk' = [disk EXCEPT ![tasks[t].index + 1] =
                  [file |-> Written(ron_to_string(lexicons[tasks[t].index + 1])),
                   target_file |-> lexicons[tasks[t].index + 1]]]
    /\ tasks' = [tasks EXCEPT ![t].pc = "stage_file"]
    /\ UNCHANGED <<registryVars, lexicons, lexicon_locks, staged, commits,
                   replies, frontVars>>

\* update_lexicon returned false: nothing was written, or the file was and
\* the target file was created and not completed
UpdateLexiconFails(t) ==
    /\ tasks[t].pc = "update_lexicon"
    /\ \/ UNCHANGED disk
       \/ disk' = [disk EXCEPT ![tasks[t].index + 1] =
                     [file |-> Written(ron_to_string(lexicons[tasks[t].index + 1])),
                      target_file |-> [partial |-> TRUE]]]
    /\ Reply(t, failure("Update error", "The lexicon could not be updated."))
    /\ UNCHANGED <<registryVars, lexicons, staged, commits, frontVars>>

\* update_lexicon_git: git::stage succeeded, on the lexicon's file and then
\* on its target file
Stage(t) ==
    /\ tasks[t].pc \in {"stage_file", "stage_target_file"}
    /\ IF tasks[t].pc = "stage_file"
       THEN /\ staged' = staged \cup {<<tasks[t].index, "file">>}
            /\ tasks' = [tasks EXCEPT ![t].pc = "stage_target_file"]
       ELSE /\ staged' = staged \cup {<<tasks[t].index, "target_file">>}
            /\ tasks' = [tasks EXCEPT ![t].pc = "commit"]
    /\ UNCHANGED <<registryVars, lexicons, lexicon_locks, disk, commits,
                   replies, frontVars>>

\* update_lexicon_git: git commit succeeded: it takes everything staged in
\* the repository, and there was something to take
Commit(t) ==
    /\ tasks[t].pc = "commit"
    /\ staged # {}
    /\ commits' = Append(commits, [task |-> t, index |-> tasks[t].index,
                                   files |-> staged])
    /\ staged' = {}
    /\ tasks' = [tasks EXCEPT ![t].pc = "push"]
    /\ UNCHANGED <<registryVars, lexicons, lexicon_locks, disk, replies,
                   frontVars>>

\* update_lexicon_git: git push succeeded: the operation is done
Push(t) ==
    /\ tasks[t].pc = "push"
    /\ Reply(t, success("Success",
                        IF tasks[t].op = "remove" THEN "The word got removed."
                        ELSE "Successfully updated lexicon entry for word '"
                                \o tasks[t].word \o "'."))
    /\ UNCHANGED <<registryVars, lexicons, disk, staged, commits, frontVars>>

\* update_lexicon_git returned false: one of its git commands exited with a
\* failure status
GitFails(t) ==
    /\ tasks[t].pc \in {"stage_file", "stage_target_file", "commit", "push"}
    /\ Reply(t, failure("Git error", "The lexicon could not be pushed to Git."))
    /\ UNCHANGED <<registryVars, lexicons, disk, staged, commits, frontVars>>

----------------------------------------------------------------------------
(* The start of the bot: load *)

\* the word maps over WordSet and Descriptions
WordMaps ==
    LET Nested(flat) ==
            [c \in {FirstUpper(word) : word \in DOMAIN flat} |->
                [word \in {w \in DOMAIN flat : FirstUpper(w) = c} |->
                    flat[word]]]
    IN  {Nested(flat) :
            flat \in UNION {[held -> Descriptions] : held \in SUBSET WordSet}}

\* load: the lexicon's file is missing; it is created holding
\* ron::to_string(&Lexicon::default())
LoadCreate(t) ==
    /\ tasks[t].pc = "load"
    /\ ~disk[tasks[t].index + 1].file.exists
    /\ disk' = [disk EXCEPT ![tasks[t].index + 1].file =
                  Written(DefaultDocument)]
    /\ tasks' = [tasks EXCEPT ![t].pc = "read", ![t].created = TRUE]
    /\ UNCHANGED <<registryVars, lexicons, lexicon_locks, staged, commits,
                   replies, frontVars>>

\* load: the file is read and parsed with ron::from_str into the words of
\* the Lexicon; on Err the process exits with status 1. Handler::load goes on
\* to the next lexicon of the config
LoadRead(t) ==
    /\ \/ tasks[t].pc = "read"
       \/ tasks[t].pc = "load" /\ disk[tasks[t].index + 1].file.exists
    /\ LET index == tasks[t].index
           words == ron_from_str(disk[index + 1].file.document)
       IN  IF words.kind = "Err"
           THEN /\ tasks' = [tasks EXCEPT ![t].pc = "exit"]
                /\ UNCHANGED lexicons
           ELSE /\ lexicons' = [lexicons EXCEPT ![index + 1] = words.value]
                /\ tasks' = [tasks EXCEPT ![t] =
                      IF index + 1 = LexiconCount
                      THEN [pc |-> "loaded", index |-> index,
                            created |-> tasks[t].created]
                      ELSE [pc |-> "load", index |-> index + 1,
                            created |-> FALSE]]
    /\ UNCHANGED <<registryVars, lexicon_locks, disk, staged, commits,
                   replies, frontVars>>

\* Handler::load: no interaction is being handled, the registry is
\* Mutex::new((0, HashMap::new())), every lexicon is as Lexicon::load read it
\* from its file, and nothing is staged in the repository
BotIdle(loaded) ==
    /\ tasks = [t \in Tasks |-> Idle]
    /\ modals = [counter |-> 0, entries |-> <<>>]
    /\ modals_lock = NoTask
    /\ issued = <<>>
    /\ handled = <<>>
    /\ lexicons = loaded
    /\ lexicon_locks = [index \in 1..LexiconCount |-> NoTask]
    /\ disk = [index \in 1..LexiconCount |->
                  [file |-> Written(ron_to_string(loaded[index])),
                   target_file |-> loaded[index]]]
    /\ staged = {}
    /\ commits = <<>>
    /\ replies = [t \in Tasks |-> [op |-> "none"]]

\* every lexicon file was missing or empty of words
NoLexicons == [index \in 1..LexiconCount |-> NoWords]

----------------------------------------------------------------------------
(* The state machine *)

\* parse's locals as its first lines set them
ParseInit ==
    /\ pos = 0
    /\ stack = <<Root>>
    /\ inverted = FALSE
    /\ expect_next = TRUE
    /\ max_input = 0

\* either a statement goes through tokenize and then parse, as in the
\* emulate command, or parse is called on a slice of any tokens
Init ==
    /\ overflow_checks \in BOOLEAN
    /\ \/ /\ code \in Texts
          /\ pc = "tokenize"
          /\ open = FALSE
       \/ /\ code = <<>>
          /\ pc = "parse"
          /\ open = TRUE
    /\ src = code
    /\ buffer = ""
    /\ tokens = <<>>
    /\ ParseInit
    /\ result = Running
    /\ input_value = code
    /\ statement_i = 0
    /\ response = <<>>
    /\ reply = NoResponse
    /\ emulators = <<>>
    /\ outcomes = <<>>
    /\ BotIdle(NoLexicons)

Next ==
    \/ TokLeftParen
    \/ TokRightParen
    \/ TokNot
    \/ TokComma
    \/ TokDot
    \/ TokWhitespace
    \/ TokOther
    \/ TokReturn
    \/ ParseLeftParen
    \/ ParseRightParen
    \/ ParseNot
    \/ ParseComma
    \/ ParseInput
    \/ ParseIdentifier
    \/ ParseFinish

Spec == Init /\ [][Next]_vars

\* the same, the calls being run to their end: a step that can be taken is
\* taken
SpecLive == Spec /\ WF_vars(Next)

\* handle_modal is entered with a submission; its loop hands the first
\* statement to tokenize
InitEmulate ==
    /\ overflow_checks \in BOOLEAN
    /\ input_value \in Values
    /\ statement_i = 0
    /\ response = <<>>
    /\ reply = NoResponse
    /\ emulators = <<>>
    /\ outcomes = <<>>
    /\ code = Split(input_value)[1]
    /\ src = code
    /\ buffer = ""
    /\ tokens = <<>>
    /\ open = FALSE
    /\ ParseInit
    /\ result = Running
    /\ pc = "tokenize"
    /\ BotIdle(NoLexicons)

NextEmulate ==
    \/ Next
    \/ EmulateParsingError
    \/ EmulateTooManyInputs
    \/ EmulatorNewFails
    \/ EmulateAllFails
    \/ EmulateStatement
    \/ EmulateSuccess

\* the emulate command: handle_modal on a submission
SpecEmulate == InitEmulate /\ [][NextEmulate]_vars

NextRepeat ==
    \/ Next
    \/ CallAgain

\* tokenize and parse called on one statement after another
SpecRepeat == InitEmulate /\ [][NextRepeat]_vars

\* no modal text is being parsed or emulated
FrontIdle ==
    /\ overflow_checks = FALSE
    /\ code = <<>>
    /\ src = <<>>
    /\ buffer = ""
    /\ tokens = <<>>
    /\ open = FALSE
    /\ ParseInit
    /\ result = Running
    /\ pc = "idle"
    /\ input_value = <<>>
    /\ statement_i = 0
    /\ response = <<>>
    /\ reply = NoResponse
    /\ emulators = <<>>
    /\ outcomes = <<>>

\* the modal registry under concurrent handlers: every task answers one
\* /lexicon add or update command with a modal, or gets one modal submission
InitRegistry ==
    /\ FrontIdle
    /\ BotIdle(NoLexicons)

NextRegistry ==
    \E t \in Tasks :
        \/ StartModalResponse(t)
        \/ RegisterLock(t)
        \/ RegisterInsert(t)
        \/ RegisterIncrement(t)
        \/ StartSubmission(t)
        \/ SubmitLock(t)
        \/ SubmitRemove(t)

SpecRegistry == InitRegistry /\ [][NextRegistry]_vars

\* the lexicon operations under concurrent handlers: every writer runs one
\* handle_add, handle_update or /lexicon remove, on lexicons loaded with no
\* word or with the word "a"
InitLexicon ==
    /\ FrontIdle
    /\ \E loaded \in [1..LexiconCount ->
                        {NoWords, WithWord(NoWords, "a", "x")}] :
          BotIdle(loaded)

NextLexicon ==
    \E t \in Writers :
        \/ StartModalOperation(t)
        \/ StartRemove(t)
        \/ LexiconLock(t)
        \/ RemoveScan(t)
        \/ AddEntry(t)
        \/ UpdateEntry(t)
        \/ RemoveEntry(t)
        \/ UpdateLexicon(t)
        \/ UpdateLexiconFails(t)
        \/ Stage(t)
        \/ Commit(t)
        \/ Push(t)
        \/ GitFails(t)

SpecLexicon == InitLexicon /\ [][NextLexicon]_vars

\* the bot starts: the main thread, task 1, runs Handler::load over the
\* lexicons of the config. Each file is missing, or is as update_lexicon
\* wrote it in the run before, whose word maps `lexicons` still holds
InitLoad ==
    /\ FrontIdle
    /\ tasks = [t \in Tasks |->
                  IF t = 1 THEN [pc |-> "load", index |-> 0, created |-> FALSE]
                  ELSE Idle]
    /\ modals = [counter |-> 0, entries |-> <<>>]
    /\ modals_lock = NoTask
    /\ issued = <<>>
    /\ handled = <<>>
    /\ lexicons \in [1..LexiconCount -> WordMaps]
    /\ lexicon_locks = [index \in 1..LexiconCount |-> NoTask]
    /\ \E missing \in SUBSET {index \in 1..LexiconCount :
                                lexicons[index] = NoWords} :
          disk = [index \in 1..LexiconCount |->
                    [file |-> IF index \in missing THEN Missing
                              ELSE Written(ron_to_string(lexicons[index])),
                     target_file |-> lexicons[index]]]
    /\ staged = {}
    /\ commits = <<>>
    /\ replies = [t \in Tasks |-> [op |-> "none"]]

NextLoad ==
    \/ LoadCreate(1)
    \/ LoadRead(1)

SpecLoad == InitLoad /\ [][NextLoad]_vars

----------------------------------------------------------------------------
(* The grammar the claims speak of, read off a slice by recursive descent:  *)
(* expr ::= [Not] ( Input | Identifier LeftParen args RightParen ),         *)
(* args ::= expr { Comma expr }, the Identifier being `and` or `or`.        *)

NoParse == [ok |-> FALSE, node |-> <<>>, next |-> 0]

TokenAt(toks, i) == IF i \in 1..Len(toks) THEN toks[i] ELSE NoToken

RECURSIVE ExprAt(_, _)
RECURSIVE ArgsAt(_, _)

\* the expression starting at toks[i]: its tree and the index after it
ExprAt(toks, i) ==
    LET negated == TokenAt(toks, i) = Not
        j == IF negated THEN i + 1 ELSE i
        t == TokenAt(toks, j)
        wrap(n) == IF negated THEN [gate |-> "Not", child |-> n] ELSE n
    IN  IF t.type = "Input"
        THEN [ok |-> TRUE, node |-> wrap([gate |-> "Input", index |-> t.index]),
              next |-> j + 1]
        ELSE IF /\ t.type = "Identifier"
                /\ t.value \in {"and", "or"}
                /\ TokenAt(toks, j + 1) = LeftParen
        THEN LET args == ArgsAt(toks, j + 2)
             IN  IF args.ok /\ TokenAt(toks, args.next) = RightParen
                 THEN [ok |-> TRUE,
                       node |-> wrap([gate |-> IF t.value = "and" THEN "And" ELSE "Or",
                                      children |-> args.node]),
                       next |-> args.next + 1]
                 ELSE NoParse
        ELSE NoParse

\* the comma-separated expressions starting at toks[i]
ArgsAt(toks, i) ==
    LET first == ExprAt(toks, i)
    IN  IF ~first.ok THEN NoParse
        ELSE IF TokenAt(toks, first.next) = Comma
        THEN LET more == ArgsAt(toks, first.next + 1)
             IN  IF more.ok
                 THEN [ok |-> TRUE, node |-> <<first.node>> \o more.node,
                       next |-> more.next]
                 ELSE NoParse
        ELSE [ok |-> TRUE, node |-> <<first.node>>, next |-> first.next]

\* toks is exactly one call, optionally negated
WellFormedCall(toks) ==
    /\ ExprAt(toks, 1).ok
    /\ ExprAt(toks, 1).next = Len(toks) + 1
    /\ \/ TokenAt(toks, 1).type = "Identifier"
       \/ TokenAt(toks, 1) = Not /\ TokenAt(toks, 2).type = "Identifier"

\* the tree that mirrors a well-formed slice
Mirror(toks) == ExprAt(toks, 1).node

\* parse has returned, and the whole slice it was given is known
ParseReturned == pc = "done" /\ ~open

\* the indices of the Input tokens among the first n tokens
InputIndices(toks, n) ==
    {toks[i].index : i \in {k \in 1..n : toks[k].type = "Input"}}

\* the largest element of a non-empty set of numbers
Largest(set) == CHOOSE m \in set : \A x \in set : x <= m

\* the indices of the Input nodes of a tree
RECURSIVE TreeIndices(_)
TreeIndices(node) ==
    IF node.gate = "Input" THEN {node.index}
    ELSE IF node.gate = "Not" THEN TreeIndices(node.child)
    ELSE UNION {TreeIndices(node.children[i]) : i \in 1..Len(node.children)}

----------------------------------------------------------------------------
(* Claims *)

\* C1: every well-formed slice (calls named and/or with one or more
\* comma-separated arguments, each an input or a nested call, each optionally
\* preceded by Not) is parsed successfully into the tree that mirrors it;
\* and(.0,.1) gives (2, And([Input(0), Input(1)])) and or(and(.0,.1),!.2)
\* gives (3, Or([And([Input(0), Input(1)]), Not(Input(2))])).
C1_MirrorTree ==
    /\ ParseReturned /\ WellFormedCall(tokens) =>
          /\ result.kind = "Ok"
          /\ result.value.component = Mirror(tokens)
    /\ ParseReturned /\ code = SrcAnd2 =>
          result = Ok([input_count |-> 2,
                       component |-> and(<<input(0), input(1)>>)])
    /\ ParseReturned /\ code = SrcNested =>
          result = Ok([input_count |-> 3,
                       component |-> or(<<and(<<input(0), input(1)>>),
                                          not(input(2))>>)])

\* C1 with every index below the largest usize: not a claim's formula, the
\* part of C1 the overflow of index + 1 leaves standing
C1_BelowMax ==
    /\ ParseReturned
    /\ WellFormedCall(tokens)
    /\ UsizeMax \notin InputIndices(tokens, Len(tokens))
    => /\ result.kind = "Ok"
       /\ result.value.component = Mirror(tokens)

\* C2: whenever parse succeeds, input_count is 1 + the largest index among the
\* Input tokens consumed, which is 1 + the largest index in the returned tree,
\* and so is at least 1.
C2_InputCount ==
    pc = "done" /\ result.kind = "Ok" =>
        /\ InputIndices(tokens, pos) # {}
        /\ result.value.input_count = 1 + Largest(InputIndices(tokens, pos))
        /\ result.value.input_count
              = 1 + Largest(TreeIndices(result.value.component))
        /\ result.value.input_count >= 1

\* C2 with every index below the largest usize: not a claim's formula
C2_BelowMax ==
    /\ pc = "done"
    /\ result.kind = "Ok"
    /\ UsizeMax \notin InputIndices(tokens, pos)
    => /\ InputIndices(tokens, pos) # {}
       /\ result.value.input_count = 1 + Largest(InputIndices(tokens, pos))
       /\ result.value.input_count
             = 1 + Largest(TreeIndices(result.value.component))

\* the slice is n >= 0 Not tokens followed by exactly one Input
NotsThenInput(toks) ==
    /\ Len(toks) >= 1
    /\ toks[Len(toks)].type = "Input"
    /\ \A i \in 1..(Len(toks) - 1) : toks[i] = Not

\* C3: for n Not tokens followed by one Input(i), parse succeeds with
\* input_count = i + 1 and the tree Not(Input(i)) for odd n, Input(i) for
\* even n.
C3_NotsThenInput ==
    ParseReturned /\ NotsThenInput(tokens) =>
        LET i == tokens[Len(tokens)].index
            n == Len(tokens) - 1
        IN  result = Ok([input_count |-> i + 1,
                         component |-> IF n % 2 = 1 THEN not(input(i))
                                       ELSE input(i)])

\* C3 with the index below the largest usize: not a claim's formula
C3_BelowMax ==
    ParseReturned /\ NotsThenInput(tokens)
                  /\ tokens[Len(tokens)].index < UsizeMax =>
        LET i == tokens[Len(tokens)].index
            n == Len(tokens) - 1
        IN  result = Ok([input_count |-> i + 1,
                         component |-> IF n % 2 = 1 THEN not(input(i))
                                       ELSE input(i)])

\* the loop iteration of this step takes a token of this type from the
\* iterator as its `token`
Processes(type) ==
    /\ pc = "parse"
    /\ pos' > pos
    /\ tokens'[pos + 1].type = type

\* this step is parse leaving its loop: the iterator is exhausted, or the
\* Input arm's break was taken
LeavesLoop ==
    /\ pc \in {"parse", "finish"}
    /\ pc' = "done"
    /\ pos' = pos

\* toks is a well-formed call followed by one RightParen
CallThenRightParen(toks) ==
    /\ Len(toks) >= 2
    /\ toks[Len(toks)] = RightParen
    /\ WellFormedCall(SubSeq(toks, 1, Len(toks) - 1))

\* C4 as stated: a complete, closed root-level call followed by one extra
\* RightParen fails with UnexpectedRightParen.
C4_Original ==
    ParseReturned /\ CallThenRightParen(tokens) =>
        result = Err(UnexpectedRightParen)

\* C4 as amended: a complete, closed root-level call followed by one extra
\* RightParen is never accepted and never fails with UnexpectedRightParen:
\* the only error parse returns for it is UnexpectedTokensAfterExpr, raised
\* while the call's own RightParen is processed, the extra one still
\* unconsumed; and(.0,.1)) returns it.
C4_ExtraRightParen ==
    /\ pc = "done" /\ CallThenRightParen(tokens) =>
          /\ result.kind # "Ok"
          /\ result.kind = "Err" =>
                /\ result.error = UnexpectedTokensAfterExpr
                /\ pos = Len(tokens) - 1
    /\ ParseReturned /\ code = SrcExtraParen =>
          result = Err(UnexpectedTokensAfterExpr)

C4_Witness ==
    /\ ParseReturned
    /\ code = SrcExtraParen
    /\ CallThenRightParen(tokens)
    /\ result = Err(UnexpectedTokensAfterExpr)

\* C5: when the tokens are exhausted with no earlier error while one or more
\* Call groups are open, parse fails with InvalidParentheses, whatever the
\* open calls are named and however many there are.
C5_Unclosed ==
    [][LeavesLoop /\ Len(stack) > 1 => result' = Err(InvalidParentheses)]_vars

C5_Witness ==
    /\ ParseReturned
    /\ pos = Len(tokens)
    /\ Len(stack) >= 3
    /\ \E i \in 2..Len(stack) : stack[i].call_name = "xor"
    /\ result = Err(InvalidParentheses)

\* C6: a RightParen that legally closes a Call group named anything but
\* exactly `and` or `or` makes parse fail with UnknownFunction carrying that
\* name; not(.0) fails with UnknownFunction("not"), AND(.0) with
\* UnknownFunction("AND"), xor(.0,.1) with UnknownFunction("xor").
C6_UnknownFunction ==
    /\ [][/\ Processes("RightParen")
          /\ ~expect_next
          /\ Len(stack) > 1
          /\ stack[Len(stack)].call_name \notin {"and", "or"}
          => /\ pc' = "done"
             /\ result' = Err(UnknownFunction(stack[Len(stack)].call_name))]_vars
    /\ [](ParseReturned /\ code = SrcNotCall =>
            result = Err(UnknownFunction("not")))
    /\ [](ParseReturned /\ code = SrcUpperAnd =>
            result = Err(UnknownFunction("AND")))
    /\ [](ParseReturned /\ code = SrcXor =>
            result = Err(UnknownFunction("xor")))

C6_Witness ==
    /\ ParseReturned
    /\ code = SrcNotCall
    /\ pos = Len(tokens)
    /\ result = Err(UnknownFunction("not"))

\* C7: parse never returns Ok with tokens left unconsumed: once the root
\* expression is complete (a bare input pushed at depth 1, or a call closed
\* back to depth 1) any remaining token makes it fail with
\* UnexpectedTokensAfterExpr.
C7_TrailingTokens ==
    /\ pc = "done" /\ result.kind = "Ok" => pos = Len(tokens) /\ ~open
    /\ /\ pc \in {"parse", "finish", "done"}
       /\ Len(stack) = 1
       /\ stack[1].operands # <<>>
       /\ pos < Len(tokens)
       => /\ pc = "done"
          /\ result = Err(UnexpectedTokensAfterExpr)

C7_Witness ==
    /\ ParseReturned
    /\ code = SrcTwoInputs
    /\ pos = 1
    /\ Len(tokens) = 2
    /\ result = Err(UnexpectedTokensAfterExpr)

\* this step takes a Comma from the iterator, as the loop's token or as the
\* token looked at after an Identifier
TakesComma ==
    /\ pc = "parse"
    /\ \E i \in (pos + 1)..pos' : tokens'[i] = Comma

\* C8 as stated: a Comma is accepted only with expect_next false and the
\* stack deeper than 1, and then sets expect_next; in every other state
\* parse fails with UnexpectedComma.
C8_Original ==
    [][TakesComma =>
          IF ~expect_next /\ Len(stack) > 1
          THEN expect_next' /\ pc' = "parse"
          ELSE pc' = "done" /\ result' = Err(UnexpectedComma)]_vars

\* C8 as amended: a Comma that reaches the main token loop (one that is not
\* the token directly after an Identifier read as a function name) is
\* accepted only with expect_next false and the stack deeper than 1, and
\* then only sets expect_next; in every other state parse fails with
\* UnexpectedComma.
C8_Comma ==
    [][Processes("Comma") =>
          IF ~expect_next /\ Len(stack) > 1
          THEN /\ expect_next'
               /\ pc' = "parse"
               /\ result' = Running
               /\ UNCHANGED <<stack, inverted, max_input>>
          ELSE /\ pc' = "done"
               /\ result' = Err(UnexpectedComma)]_vars

C8_Witness ==
    /\ ParseReturned
    /\ code = SrcDoubleComma
    /\ pos = 5
    /\ tokens[4] = Comma
    /\ tokens[5] = Comma
    /\ result = Err(UnexpectedComma)

\* C9: a slice that is empty or holds only Not tokens fails with
\* EmptyExpression.
C9_EmptyExpression ==
    ParseReturned /\ (\A i \in 1..Len(tokens) : tokens[i] = Not) =>
        result = Err(EmptyExpression)

C9_Witness ==
    /\ ParseReturned
    /\ Len(tokens) >= 2
    /\ \A i \in 1..Len(tokens) : tokens[i] = Not
    /\ result = Err(EmptyExpression)

\* the number a string of decimal digits denotes
RECURSIVE Denotes(_)
Denotes(digits) ==
    IF digits = <<>> THEN 0
    ELSE LET last == digits[Len(digits)]
             units == CASE last = "0" -> 0 [] last = "1" -> 1 [] last = "2" -> 2
                        [] last = "3" -> 3 [] last = "4" -> 4 [] last = "5" -> 5
                        [] last = "6" -> 6 [] last = "7" -> 7 [] last = "8" -> 8
                        [] last = "9" -> 9
         IN  10 * Denotes(SubSeq(digits, 1, Len(digits) - 1)) + units

\* text is `.` followed by one or more decimal digits
DotDigits(text) ==
    /\ Len(text) >= 2
    /\ text[1] = "."
    /\ \A i \in 2..Len(text) :
          text[i] \in {"0", "1", "2", "3", "4", "5", "6", "7", "8", "9"}

\* C10: for every non-empty string d of decimal digits whose value fits
\* usize, leading zeros allowed, tokenize of `.` followed by d yields exactly
\* one token, Input with the value of d.
C10_InputToken ==
    /\ pc # "tokenize"
    /\ DotDigits(code)
    /\ Denotes(Tail(code)) <= UsizeMax
    => /\ pc # "lex_error"
       /\ tokens = <<Input(Denotes(Tail(code)))>>

C10_Witness ==
    /\ pc = "parse"
    /\ pos = 0
    /\ code = <<".", "0", "3">>
    /\ tokens = <<Input(3)>>

----------------------------------------------------------------------------
(* The tokenizer's result, against a reading of the statement by runs *)

\* the decimal digits
DecimalDigits == {"0", "1", "2", "3", "4", "5", "6", "7", "8", "9"}

\* the last position of the digit run that starts right after position i
RunEnd(chars, i) ==
    CHOOSE j \in i..Len(chars) :
        /\ \A k \in (i + 1)..j : chars[k] \in DecimalDigits
        /\ j = Len(chars) \/ chars[j + 1] \notin DecimalDigits

\* the digit run that follows position i
RunAfter(chars, i) == SubSeq(chars, i + 1, RunEnd(chars, i))

\* the positions of the dots followed by no digit or by a run too large
BadDots(chars) ==
    {i \in 1..Len(chars) :
        /\ chars[i] = "."
        /\ \/ RunAfter(chars, i) = <<>>
           \/ Denotes(RunAfter(chars, i)) > UsizeMax}

\* the least member of a non-empty set of positions
Smallest(S) == CHOOSE i \in S : \A j \in S : i <= j

\* the string made of the characters chars
RECURSIVE StringOf(_)
StringOf(chars) ==
    IF chars = <<>> THEN ""
    ELSE StringOf(SubSeq(chars, 1, Len(chars) - 1)) \o chars[Len(chars)]

\* C11: tokenize fails exactly when the statement has a `.` followed by no
\* digit or by a digit run that does not fit usize; the error is then
\* InvalidNumber whose text is that run (empty, or the whole run) at the first
\* such dot, no other error exists, and no tokens are returned, whatever was
\* scanned before.
C11_InvalidNumber ==
    pc # "tokenize"
    => /\ (pc = "lex_error") <=> (BadDots(code) # {})
       /\ pc = "lex_error"
          => /\ result =
                  Err(InvalidNumber(
                      StringOf(RunAfter(code, Smallest(BadDots(code))))))
             /\ tokens = <<>>

C11_Witness ==
    /\ pc = "lex_error"
    /\ code = SrcBadNumber
    /\ result = Err(InvalidNumber("99"))
    /\ tokens = <<>>

\* the characters that are tokens of their own, or start one
Separators == {"(", ")", "!", ",", "."}

\* the whitespace a statement can hold
Blanks == {" ", "\t", "\r"}

\* c can be part of a name
IsNameChar(c) == c \notin Separators /\ c \notin Blanks

\* the last position of the run of name characters that starts at position i
NameEnd(chars, i) ==
    CHOOSE j \in i..Len(chars) :
        /\ \A k \in i..j : IsNameChar(chars[k])
        /\ j = Len(chars) \/ ~IsNameChar(chars[j + 1])

\* the tokens of chars from position i on, read run by run
RECURSIVE TokensByRuns(_, _)
TokensByRuns(chars, i) ==
    IF i > Len(chars) THEN <<>>
    ELSE CASE chars[i] = "(" -> <<LeftParen>> \o TokensByRuns(chars, i + 1)
           [] chars[i] = ")" -> <<RightParen>> \o TokensByRuns(chars, i + 1)
           [] chars[i] = "!" -> <<Not>> \o TokensByRuns(chars, i + 1)
           [] chars[i] = "," -> <<Comma>> \o TokensByRuns(chars, i + 1)
           [] chars[i] = "." ->
                <<Input(Denotes(RunAfter(chars, i)))>>
                \o TokensByRuns(chars, RunEnd(chars, i) + 1)
           [] chars[i] \in Blanks -> TokensByRuns(chars, i + 1)
           [] OTHER ->
                <<Identifier(StringOf(SubSeq(chars, i, NameEnd(chars, i))))>>
                \o TokensByRuns(chars, NameEnd(chars, i) + 1)

\* C12: a successful tokenize returns the tokens in source order, with exactly
\* one Identifier per maximal run of characters that are neither whitespace
\* nor one of ( ) ! , . ; identifiers are never empty, whitespace yields no
\* token, and a run still buffered at the end of the statement is the last
\* token.
C12_TokensByRuns ==
    /\ \A k \in 1..Len(tokens) :
          tokens[k].type = "Identifier" => tokens[k].value # ""
    /\ pc \notin {"tokenize", "lex_error"} /\ code # <<>>
       => tokens = TokensByRuns(code, 1)

C12_Witness ==
    /\ pc = "parse"
    /\ pos = 0
    /\ code = SrcTwoNames
    /\ tokens = <<Identifier("and"), Identifier("or")>>

----------------------------------------------------------------------------
(* Calls in a row and the emulate handler *)

\* C13: tokenize and parse are functions of their argument alone and keep
\* nothing from one call to the next: every call on the same statement
\* returns the same tokens and the same result, whatever statements were
\* handed to the calls in between and whether or not those calls failed.
C13_SameOutcome ==
    \A a, b \in 1..Len(outcomes) :
        outcomes[a].code = outcomes[b].code => outcomes[a] = outcomes[b]

C13_Witness ==
    /\ Len(outcomes) = 3
    /\ outcomes[1].code = SrcNotInput
    /\ outcomes[1].result = Ok([input_count |-> 1, component |-> not(input(0))])
    /\ outcomes[2].code = <<"(">>
    /\ outcomes[2].result.kind = "Err"
    /\ outcomes[3] = outcomes[1]

\* the decimal numeral of n
RECURSIVE Numeral(_)
Numeral(n) ==
    LET units == <<"0", "1", "2", "3", "4", "5", "6", "7", "8", "9">>[(n % 10) + 1]
    IN  IF n < 10 THEN units ELSE Numeral(n \div 10) \o units

\* the handler takes up the result of parse
TakesUpParse == pc = "done" /\ pc' # "done"

\* C14: the emulate handler never constructs an evaluator for a statement
\* whose input_count is greater than 16: it returns a failure titled
\* "[i] Emulation error" instead, i being the statement's index; a statement
\* whose input_count is 16 or less is passed to the evaluator.
C14_ArityLimit ==
    [][/\ \A k \in 1..Len(emulators') : emulators'[k].input_count <= 16
       /\ TakesUpParse /\ result.kind = "Ok"
          => IF result.value.input_count > 16
             THEN /\ emulators' = emulators
                  /\ reply'.kind = "Regular"
                  /\ ~reply'.success
                  /\ reply'.title =
                        "[" \o Numeral(Len(response)) \o "] Emulation error"
             ELSE emulators' = Append(emulators, result.value)]_vars

C14_Witness ==
    /\ pc = "returned"
    /\ emulators = <<[input_count |-> 16, component |-> input(15)]>>
    /\ reply = failure("[1] Emulation error", "Too many inputs")

\* the positions of the newlines of text
Newlines(text) == {p \in 1..Len(text) : text[p] = "\n"}

\* how many lines text has
LineCount(text) == Cardinality(Newlines(text)) + 1

\* the position of the k-th newline of text; 0 and Len(text) + 1 stand for
\* its two ends
Boundary(text, k) ==
    IF k = 0 THEN 0
    ELSE IF k > Cardinality(Newlines(text)) THEN Len(text) + 1
    ELSE CHOOSE p \in Newlines(text) :
            Cardinality({q \in Newlines(text) : q < p}) = k - 1

\* line n of text, n counted from zero
LineOf(text, n) ==
    SubSeq(text, Boundary(text, n) + 1, Boundary(text, n + 1) - 1)

\* C15: the handler takes the lines of the submission in order, counted from
\* zero; at the first line i whose tokenize or parse fails it returns a
\* failure titled "[i] Parsing error", at the first whose arity check or
\* emulation fails one titled "[i] Emulation error"; after that no line is
\* tokenized or parsed, the failure carries a message and not the output of
\* the earlier lines, and a success carries the output of every line.
C15_FirstFailure ==
    [][LET emulated == Len(response)
           parsing == \/ pc = "lex_error"
                      \/ pc = "done" /\ result.kind = "Err"
           arity == /\ pc = "done"
                    /\ result.kind = "Ok"
                    /\ result.value.input_count > 16
       IN  /\ reply = NoResponse
           /\ code = LineOf(input_value, emulated)
           /\ parsing
              => reply' = failure("[" \o Numeral(emulated) \o "] Parsing error",
                                  reply'.text)
           /\ arity
              => reply' = failure("[" \o Numeral(emulated) \o "] Emulation error",
                                  reply'.text)
           /\ reply' # NoResponse
              => IF reply'.success
                 THEN /\ Len(response') = LineCount(input_value)
                      /\ Len(emulators') = LineCount(input_value)
                      /\ reply'.text = response'
                 ELSE /\ response' = response
                      /\ code' = code
                      /\ reply'.text \in STRING
                      /\ reply'.title \in
                            {"[" \o Numeral(emulated) \o "] Parsing error",
                             "[" \o Numeral(emulated) \o "] Emulation error"}
                      /\ reply'.title
                            = "[" \o Numeral(emulated) \o "] Parsing error"
                         <=> parsing]_vars

C15_Witness ==
    /\ pc = "returned"
    /\ input_value = SrcAnd2 \o <<"\n", ".", "\n">> \o SrcNotInput
    /\ Len(response) = 1
    /\ Len(tokens) = 0
    /\ reply = failure("[1] Parsing error", "\"\" is not a valid number")

----------------------------------------------------------------------------
(* The arms of parse's loop, token by token *)

\* C16: a Not token is accepted only where an operand may start: one that is
\* processed while no operand is expected makes parse fail instead of being
\* consumed.
C16_NotNeedsOperandSlot ==
    [][Processes("Not") /\ ~expect_next
       => pc' = "done" /\ result'.kind = "Err"]_vars

\* what the code does with and(.0!,.1) and and(.0!): not a claim's formula
C16_Accepted ==
    /\ pc = "done" /\ code = SrcNotAfterOperand
       => result = Ok([input_count |-> 2,
                       component |-> and(<<input(0), not(input(1))>>)])
    /\ pc = "done" /\ code = SrcNotBeforeClose
       => result = Ok([input_count |-> 1, component |-> and(<<input(0)>>)])

\* C17: a RightParen processed while an operand is expected makes parse fail
\* with UnexpectedRightParen at any depth: right after a call's LeftParen,
\* after a Comma, after a Not, or as the first token.
C17_RightParenExpectingOperand ==
    [][Processes("RightParen") /\ expect_next
       => pc' = "done" /\ result' = Err(UnexpectedRightParen)]_vars

C17_Witness ==
    /\ pc = "done"
    /\ code = SrcNestedEmptyCall
    /\ Len(stack) = 3
    /\ expect_next
    /\ pos = 7
    /\ result = Err(UnexpectedRightParen)

\* C18: UnknownFunction is raised only by the step that processes the closing
\* RightParen of the call so named, never when the name is read: an unknown
\* name followed by `(,` gives UnexpectedComma, by `()` UnexpectedRightParen,
\* left unclosed InvalidParentheses, and of two nested unknown calls the
\* inner name is the one reported.
C18_UnknownFunctionAtClose ==
    [][/\ /\ result' # result
          /\ result'.kind = "Err"
          /\ result'.error.type = "UnknownFunction"
          => /\ Processes("RightParen")
             /\ stack[Len(stack)].type = "Call"
             /\ stack[Len(stack)].call_name = result'.error.name
             /\ result'.error.name \notin {"and", "or"}
       /\ pc' = "done" /\ code = SrcXorComma
          => result' = Err(UnexpectedComma)
       /\ pc' = "done" /\ code = SrcXorEmpty
          => result' = Err(UnexpectedRightParen)
       /\ pc' = "done" /\ code = SrcXorUnclosed
          => result' = Err(InvalidParentheses)
       /\ pc' = "done" /\ code = SrcXorFoo
          => result' = Err(UnknownFunction("foo"))]_vars

C18_Witness ==
    /\ pc = "done"
    /\ code = SrcXorFoo
    /\ pos = 6
    /\ result = Err(UnknownFunction("foo"))

\* C19: an Identifier processed while an operand is expected must be followed
\* at once by a LeftParen. If it is the last token parse fails with
\* UnexpectedEndOfSource; if any other token follows, with UnexpectedToken
\* carrying the Identifier itself; otherwise the LeftParen is consumed with
\* it, a Call group of that name is pushed (the depth grows by one) and an
\* operand is still expected.
C19_IdentifierThenLeftParen ==
    [][Processes("Identifier") /\ expect_next
       => LET identifier == tokens'[pos + 1]
              after == TokenAt(tokens', pos + 2)
          IN  IF after = NoToken
              THEN pc' = "done" /\ result' = Err(UnexpectedEndOfSource)
              ELSE IF after # LeftParen
              THEN pc' = "done" /\ result' = Err(UnexpectedToken(identifier))
              ELSE /\ pc' = "parse"
                   /\ result' = result
                   /\ pos' = pos + 2
                   /\ Len(stack') = Len(stack) + 1
                   /\ SubSeq(stack', 1, Len(stack)) = stack
                   /\ stack'[Len(stack')].type = "Call"
                   /\ stack'[Len(stack')].call_name = identifier.value
                   /\ stack'[Len(stack')].operands = <<>>
                   /\ expect_next']_vars

C19_Witness ==
    /\ pc = "done"
    /\ code = SrcTwoNames
    /\ pos = 2
    /\ result = Err(UnexpectedToken(Identifier("and")))

\* C20: every LeftParen that the loop itself processes, one that no
\* Identifier took with it, makes parse fail with UnexpectedToken carrying
\* LeftParen, whatever the depth, the pending inversion and whether an
\* operand is expected.
C20_BareLeftParen ==
    [][Processes("LeftParen")
       => pc' = "done" /\ result' = Err(UnexpectedToken(LeftParen))]_vars

C20_Witness ==
    /\ pc = "done"
    /\ code = SrcDoubleParen
    /\ pos = 3
    /\ Len(stack) = 2
    /\ expect_next
    /\ result = Err(UnexpectedToken(LeftParen))

\* C21: inside an open call, an Input or an Identifier processed while no
\* operand is expected (it follows a completed operand or a closed nested
\* call with no Comma between) makes parse fail with UnexpectedToken carrying
\* that token, and no operand list changes.
C21_OperandWithoutComma ==
    [][/\ Processes("Input") \/ Processes("Identifier")
       /\ ~expect_next
       /\ Len(stack) > 1
       => /\ pc' = "done"
          /\ result' = Err(UnexpectedToken(tokens'[pos + 1]))
          /\ stack' = stack]_vars

C21_Witness ==
    /\ pc = "done"
    /\ code = SrcNoCommaCalls
    /\ pos = 7
    /\ Len(stack) = 2
    /\ ~expect_next
    /\ result = Err(UnexpectedToken(Identifier("or")))

\* the node a closed call stands for: the gate of its name over its operands,
\* negated when the group's flag is set
NodeOf(group) ==
    LET gate == [gate |-> IF group.call_name = "and" THEN "And" ELSE "Or",
                 children |-> group.operands]
    IN  IF group.inverted THEN [gate |-> "Not", child |-> gate] ELSE gate

\* this step closes the top call and appends its node to the group below
ClosesCall ==
    /\ Processes("RightParen")
    /\ Len(stack') = Len(stack) - 1
    /\ Len(stack'[Len(stack')].operands)
          = Len(stack[Len(stack) - 1].operands) + 1

\* C22: the inversion pending when a call is opened is captured in its Call
\* group and reset to false; no later step changes the captured flag; when
\* the call is closed its whole node, and not its first argument, is negated
\* exactly if the captured flag is set: !and(.0,.1) gives Not(And([Input(0),
\* Input(1)])) and !and(!.0) gives Not(And([Not(Input(0))])).
C22_CapturedInversion ==
    [][/\ Processes("Identifier") /\ Len(stack') = Len(stack) + 1
          => /\ stack'[Len(stack')].inverted = inverted
             /\ ~inverted'
       /\ \A k \in 2..Len(stack) :
             k <= Len(stack') => stack'[k].inverted = stack[k].inverted
       /\ ClosesCall
          => LET parent == stack'[Len(stack')].operands
             IN  parent[Len(parent)] = NodeOf(stack[Len(stack)])
       /\ pc' = "done" /\ code = SrcNotAnd2
          => result' = Ok([input_count |-> 2,
                           component |->
                               not(and(<<input(0), input(1)>>))])
       /\ pc' = "done" /\ code = SrcNotAndNot
          => result' = Ok([input_count |-> 1,
                           component |-> not(and(<<not(input(0))>>))])]_vars

C22_Witness ==
    /\ pc = "done"
    /\ code = SrcNotAndNot
    /\ result = Ok([input_count |-> 1,
                    component |-> not(and(<<not(input(0))>>))])

\* every And and Or node of the tree has at least one child
RECURSIVE GatesHaveChildren(_)
GatesHaveChildren(node) ==
    IF node.gate = "Input" THEN TRUE
    ELSE IF node.gate = "Not" THEN GatesHaveChildren(node.child)
    ELSE /\ node.children # <<>>
         /\ \A k \in 1..Len(node.children) : GatesHaveChildren(node.children[k])

\* C23: every And and every Or node of a tree parse returns has at least one
\* child: whatever the tokens, the step that closes a Call group finds its
\* operand list non-empty.
C23_GatesHaveChildren ==
    [][/\ Processes("RightParen") /\ Len(stack') = Len(stack) - 1
          => stack[Len(stack)].operands # <<>>
       /\ pc' = "done" /\ result'.kind = "Ok"
          => GatesHaveChildren(result'.value.component)]_vars

C23_Witness ==
    /\ pc = "done"
    /\ code = SrcNested
    /\ result.kind = "Ok"
    /\ result.value.component.gate = "Or"
    /\ Len(result.value.component.children) = 2

----------------------------------------------------------------------------
(* The group stack *)

\* C24: in every state parse reaches, whatever the tokens, the Root group's
\* operand list holds at most one node; when parse returns Ok it holds
\* exactly one, and that node is the tree returned.
C24_RootHoldsOne ==
    /\ Len(stack[1].operands) <= 1
    /\ pc = "done" /\ result.kind = "Ok"
       => stack[1].operands = <<result.value.component>>

C24_Witness ==
    /\ pc = "done"
    /\ code = SrcAnd2
    /\ result.kind = "Ok"
    /\ stack = <<[type |-> "Root",
                  operands |-> <<and(<<input(0), input(1)>>)>>]>>

\* C25: the input arity is computed without overflow for every index,
\* the largest usize included: parse never aborts, and a parse that consumed
\* an Input with the largest index and returns Ok returns that index plus
\* one, never a wrapped-around count.
C25_NoOverflow ==
    /\ result.kind # "Panic"
    /\ /\ pc = "done"
       /\ result.kind = "Ok"
       /\ UsizeMax \in InputIndices(tokens, pos)
       => result.value.input_count = UsizeMax + 1

\* what the two builds do with the lone token Input(usize::MAX): not a
\* claim's formula
C25_Builds ==
    pc = "done" /\ tokens = <<Input(UsizeMax)>>
    => result = IF overflow_checks
                THEN Panic("attempt to add with overflow")
                ELSE Ok([input_count |-> 0, component |-> input(UsizeMax)])

\* C26: in every state parse reaches, whatever the tokens, the group stack is
\* non-empty, its bottom is the Root group and every group above it is a Call
\* group; so a RightParen never pops anything but a Call group (the
\* unreachable branch is never taken) and last_mut / pop never find the stack
\* empty.
C26_StackShape ==
    /\ Len(stack) >= 1
    /\ stack[1].type = "Root"
    /\ \A k \in 2..Len(stack) : stack[k].type = "Call"
    /\ result # Panic("unreachable")

C26_Witness ==
    /\ pc = "parse"
    /\ code = SrcNested
    /\ pos = 8
    /\ Len(stack) = 2
    /\ stack[2].type = "Call"
    /\ stack[2].operands = <<and(<<input(0), input(1)>>)>>

\* C27: an inversion never leaks from one argument position to the next: the
\* pending inversion is false whenever a Comma or a RightParen is processed
\* in a parse that goes on, so that an operand is negated only by the Not
\* tokens that stand immediately before it; in and(.0!,.1) the second
\* argument, with no Not before it, is Input(1).
C27_NoLeak ==
    [][/\ /\ Processes("Comma") \/ Processes("RightParen")
          /\ pc' # "done"
          => ~inverted
       /\ /\ pc' = "done"
          /\ code = SrcNotAfterOperand
          /\ result'.kind = "Ok"
          => result'.value.component.children[2] = input(1)]_vars

----------------------------------------------------------------------------
(* Progress *)

\* s is what is left of t after some of its first elements are dropped
IsSuffix(s, t) ==
    /\ Len(s) <= Len(t)
    /\ s = SubSeq(t, Len(t) - Len(s) + 1, Len(t))

\* C28: tokenize and parse make one pass and return: every step of the
\* tokenizer's loop (parse_number's loop within it) eats at least one
\* character or leaves the loop, every step of parse's loop takes at least
\* one token or leaves the loop, what is left to read is always a suffix of
\* what was left before, the tokens already taken are never changed nor
\* taken again, and in the end the call has returned.
C28_SinglePass ==
    /\ [][/\ pc = "tokenize"
             => \/ pc' # "tokenize"
                \/ Len(src') < Len(src) /\ IsSuffix(src', src)
          /\ pc = "parse"
             => \/ pc' # "parse"
                \/ pos' > pos
          /\ pc \in {"parse", "finish"}
             => /\ pos' >= pos
                /\ pos' <= Len(tokens')
                /\ SubSeq(tokens', 1, pos) = SubSeq(tokens, 1, pos)
          /\ pc' \in {"tokenize", "lex_error", "parse", "finish", "done"}
          /\ pc \in {"lex_error", "done"} => UNCHANGED vars]_vars
    /\ <>(pc \in {"lex_error", "done"})

C28_Witness ==
    /\ pc = "done"
    /\ code = SrcNested
    /\ src = <<>>
    /\ Len(tokens) = 12
    /\ pos = 12
    /\ result.kind = "Ok"

\* C29: under any interleaving of the handlers, no two modal responses get
\* the same id, a registration about to insert finds its key unused, every
\* submission that found a modal found one whose response was given that id,
\* and no id is found by two submissions
C29_UniqueIds ==
    /\ \A a, b \in DOMAIN issued : a # b => issued[a].id # issued[b].id
    /\ \A t \in Tasks :
          tasks[t].pc = "respond_locked" =>
              modals.counter \notin DOMAIN modals.entries
    /\ \A h \in DOMAIN handled :
          \E a \in DOMAIN issued :
              /\ issued[a].id = handled[h].custom_id
              /\ issued[a].modal = handled[h].modal
    /\ \A g, h \in DOMAIN handled :
          g # h => handled[g].custom_id # handled[h].custom_id

\* a modal was registered and two submissions carried its id: one found it,
\* the other found no entry
C29_Witness ==
    \E t, u \in Tasks :
        /\ tasks[t].pc = "submitted"
        /\ tasks[u].pc = "submitted"
        /\ tasks[t].custom_id = tasks[u].custom_id
        /\ tasks[t].found
        /\ ~tasks[u].found
        /\ Len(handled) = 1
        /\ \E a \in DOMAIN issued : issued[a].id = tasks[t].custom_id

\* the titles of the responses for a failed write or a failed git command
WriteErrors == {"Update error", "Git error"}

\* C30: a lexicon operation that answers `Update error` or `Git error`
\* leaves the in-memory word map of its lexicon as it found it
C30_ErrorLeavesLexicon ==
    [][\A t \in Writers :
          (/\ replies'[t] # replies[t]
           /\ replies'[t].response.title \in WriteErrors)
          => lexicons'[tasks[t].index + 1] = tasks[t].before]_vars

\* C30, the repetition: with one operation answered by a write or git error,
\* the same add is not answered `The word already exists in the lexicon.` and
\* the same remove is not answered `The word could not be found.`
C30_RepeatNotRejected ==
    \A t, u \in Writers :
        (/\ t # u
         /\ \A v \in Writers : v \in {t, u} \/ tasks[v] = Idle
         /\ replies[t].op \in {"add", "remove"}
         /\ replies[u].op = replies[t].op
         /\ replies[u].index = replies[t].index
         /\ replies[u].word = replies[t].word
         /\ replies[t].response.title \in WriteErrors)
        => replies[u].response.text
              \notin {"The word already exists in the lexicon.",
                      "The word could not be found."}

\* the two files of a lexicon, as git add names them
FilesOf(index) == {<<index, "file">>, <<index, "target_file">>}

\* C31: every commit holds the two files of the lexicon whose modification
\* made it, and no file of another lexicon
C31_OwnFilesOnly ==
    \A c \in DOMAIN commits : commits[c].files = FilesOf(commits[c].index)

\* C31, the stolen commit: a modification that staged its two files still
\* finds them staged when it comes to git commit
C31_FilesStillStaged ==
    \A t \in Writers :
        tasks[t].pc = "commit" => FilesOf(tasks[t].index) \subseteq staged

\* load reads the file of the lexicon it is at
Reads == tasks[1].pc \in {"load", "read"} /\ tasks'[1].pc # "read"

\* C32, the created file: the file load creates for a missing lexicon file is
\* read back by that load call as the empty word map
C32_CreatedReadsEmpty ==
    [][(Reads /\ tasks[1].created)
         => /\ tasks'[1].pc # "exit"
            /\ lexicons'[tasks[1].index + 1] = NoWords]_vars

\* C32, the written file: the file update_lexicon wrote for a word map is
\* read back by load as that word map
C32_WrittenReadsBack ==
    [][(Reads /\ ~tasks[1].created)
         => /\ tasks'[1].pc # "exit"
            /\ lexicons'[tasks[1].index + 1] = lexicons[tasks[1].index + 1]]_vars

\* C32: lexicon persistence round-trips: load reads the file it created as
\* the empty word map, and the file update_lexicon wrote as the word map
\* that was written
C32_RoundTrip ==
    [][Reads =>
         /\ tasks'[1].pc # "exit"
         /\ lexicons'[tasks[1].index + 1] =
               IF tasks[1].created THEN NoWords
               ELSE lexicons[tasks[1].index + 1]]_vars

\* C32, after the operations: every file update_lexicon writes in a run of
\* the lexicon operations parses to the word map in memory
C32_OperationsReadBack ==
    \A index \in 1..LexiconCount :
        disk[index].file = Written(ron_to_string(lexicons[index]))
            => ron_from_str(disk[index].file.document) = Ok(lexicons[index])

====
